---- MODULE Spec2Model ----
(***************************************************************************)
(* A model of the pray-together API server (kchsoft/gin-template): the      *)
(* domain-error registry, the JWT token manager and middleware, and the     *)
(* signup / login / profile request pipeline over the member table.         *)
(*                                                                          *)
(* Conventions.                                                             *)
(*  - A Go error is a sequence of layers, outermost first; nil is << >>.    *)
(*    fmt.Errorf("... %w", e) puts a "wrap" layer in front of e.            *)
(*  - A JSON object is a TLA+ record; a field left out by omitempty, or     *)
(*    never written, is not in its DOMAIN.                                  *)
(*  - Time is counted in days (JWT_EXPIRY defaults to 24h).                 *)
(***************************************************************************)
EXTENDS Integers, Sequences, FiniteSets, Bags, TLC

VARIABLES
    inited,                 \* packages whose init() has run
    phase,                  \* "init" while packages initialise, then "serving"
    domainErrorResponses,   \* shared/error: map[string]ErrorResponse
    members,                \* committed rows of table member
    nextID,                 \* next value of the id auto-increment
    txs,                    \* the bag of Signup transactions in flight
    now,                    \* the clock, in days
    held,                   \* the token pair of the client's latest successful login
    last                    \* the request most recently answered, with its response

vars == <<inited, phase, domainErrorResponses, members, nextID, txs, now, held, last>>

-----------------------------------------------------------------------------
(* Bounds of the model.                                                    *)

MaxInFlight == 2    \* Signup requests that may be in flight together
MaxID    == 2       \* inserts attempted on one member table (ids 1..MaxID)
MaxTime  == 2       \* the clock runs 0..MaxTime
MaxWrap  == 2       \* fmt.Errorf layers around an error
MaxChars == 3       \* characters of a string handed to MaskEmail
MaxClock == 32      \* seconds the clock of a request with a deadline runs

-----------------------------------------------------------------------------
(* shared/error: domain errors and their registry.                          *)

NilErr == << >>

\* NewDomainError(errInfo): a sentinel whose Error() and Info() are errInfo.
NewDomainError(errInfo) == << [kind |-> "domain", text |-> errInfo] >>

\* errors.New(text) and the storage driver's errors: not domain errors.
PlainError(text) == << [kind |-> "plain", text |-> text] >>

\* fmt.Errorf(msg + " %w", err)
Wrapf(msg, err) == << [kind |-> "wrap", text |-> msg] >> \o err

\* errors.Is(err, target) for a sentinel target: some layer is the target.
ErrorsIs(err, target) ==
    \E i \in 1..Len(err) : err[i] = target[1]

\* err.Error(): the texts of the layers, outermost first.
ErrorTexts(err) == { err[i].text : i \in 1..Len(err) }

ErrorResponse(status, code, message) ==
    [status |-> status, code |-> code, message |-> message]

ZeroErrorResponse == ErrorResponse(0, "", "")

\* The common errors.  Message texts, Korean in the source, are given in
\* English throughout; status and code are the source's.

ValidationFailed    == ErrorResponse(400, "ERROR-001", "bad request")
InvalidRequest      == ErrorResponse(400, "ERROR-002", "bad request format")
InternalServerError == ErrorResponse(500, "ERROR-003", "internal server error")

\* RegisterDomainErrorResponse: domainErrorResponses[errInfo] = resp
RegisterDomainErrorResponse(reg, errInfo, resp) == (errInfo :> resp) @@ reg

\* A slip: only the outermost error is asked whether it is a domain error.
FirstDomainTopOnly(err, i) ==
    IF err # << >> /\ err[1].kind = "domain" THEN 1 ELSE 0

\* errors.As(err, &domainErr): the index of the first layer that is a
\* DomainError, 0 when the chain has none.
RECURSIVE FirstDomain(_, _)
FirstDomain(err, i) ==
    IF i > Len(err) THEN 0
    ELSE IF err[i].kind = "domain" THEN i
    ELSE FirstDomain(err, i + 1)

\* A plausible slip: report found for a domain error that has no mapping.
ResolveDomainErrorNoLookup(reg, err) ==
    LET i == FirstDomain(err, 1) IN
    IF err = NilErr \/ i = 0 THEN [resp |-> ZeroErrorResponse, found |-> FALSE]
    ELSE IF err[i].text \in DOMAIN reg
         THEN [resp |-> reg[err[i].text], found |-> TRUE]
         ELSE [resp |-> ZeroErrorResponse, found |-> TRUE]

ResolveDomainError(reg, err) ==
    IF err = NilErr THEN [resp |-> ZeroErrorResponse, found |-> FALSE]
    ELSE LET i == FirstDomain(err, 1) IN
         IF i # 0 /\ err[i].text \in DOMAIN reg
         THEN [resp |-> reg[err[i].text], found |-> TRUE]
         ELSE [resp |-> ZeroErrorResponse, found |-> FALSE]

\* The errInfo constants and the sentinels built from them.
missingToken           == "MISSING_TOKEN"
invalidToken           == "INVALID_TOKEN"
expiredToken           == "EXPIRED_TOKEN"
invalidClaims          == "INVALID_CLAIMS"
memberAlreadyExists    == "MEMBER_ALREADY_EXISTS"
memberNotFound         == "MEMBER_NOT_FOUND"
incorrectEmailPassword == "INCORRECT_EMAIL_PASSWORD"

ErrMissingToken           == NewDomainError(missingToken)
ErrInvalidToken           == NewDomainError(invalidToken)
ErrExpiredToken           == NewDomainError(expiredToken)
ErrInvalidClaims          == NewDomainError(invalidClaims)
ErrMemberAlreadyExists    == NewDomainError(memberAlreadyExists)
ErrMemberNotFound         == NewDomainError(memberNotFound)
ErrInCorrectEmailPassword == NewDomainError(incorrectEmailPassword)

LoginPlease == ErrorResponse(401, "AUTH-000", "please log in")

\* The init() of each package that registers responses.
MiddlewareInit(reg) ==
    RegisterDomainErrorResponse(
      RegisterDomainErrorResponse(
        RegisterDomainErrorResponse(
          RegisterDomainErrorResponse(reg, missingToken, LoginPlease),
          invalidToken, LoginPlease),
        expiredToken, LoginPlease),
      invalidClaims, LoginPlease)

MemberInit(reg) ==
    RegisterDomainErrorResponse(
      RegisterDomainErrorResponse(reg, memberNotFound,
          ErrorResponse(404, "MEMBER-001", "member not found")),
      memberAlreadyExists,
      ErrorResponse(409, "MEMBER-002", "already signed up"))

\* A slip: auth's init() also registers member's identifier again.
AuthInitOverwrites(reg) ==
    RegisterDomainErrorResponse(
      RegisterDomainErrorResponse(reg, incorrectEmailPassword,
          ErrorResponse(400, "AUTH-003", "email or password does not match")),
      memberNotFound,
      ErrorResponse(400, "AUTH-003", "email or password does not match"))

AuthInit(reg) ==
    RegisterDomainErrorResponse(reg, incorrectEmailPassword,
        ErrorResponse(400, "AUTH-003", "email or password does not match"))

Packages == {"middleware", "member", "auth"}

\* Go initialises a package after the packages it imports: auth imports member.
Imports(p) == IF p = "auth" THEN {"member"} ELSE {}

\* The RegisterDomainErrorResponse calls each init() makes.
RegisterCalls(p) ==
    CASE p = "middleware" -> 4
      [] p = "member"     -> 2
      [] p = "auth"       -> 1

PackageInit(p, reg) ==
    CASE p = "middleware" -> MiddlewareInit(reg)
      [] p = "member"     -> MemberInit(reg)
      [] p = "auth"       -> AuthInit(reg)

-----------------------------------------------------------------------------
(* shared/token: the JWT manager.                                           *)
(*                                                                          *)
(* A token string is a record: form "jwt" is three well-formed segments     *)
(* (alg of the header, the claims object, the signature); "badclaims" is    *)
(* the same with a claims segment that json.Unmarshal rejects for Claims    *)
(* (say "exp":"tomorrow"); "malformed" is any other string, "" included.    *)
(* HMAC is taken as a perfect MAC: a signature names the key, the algorithm *)
(* and the claims it was computed over, and verifies only against them.     *)

ACCESS  == "access"
REFRESH == "refresh"

Secret == "jwt-secret"          \* cfg.JWT.Secret
Issuer == "pray-together-api"   \* cfg.App.Name

\* cfg.JWT.Expiry and cfg.JWT.RefreshExpiry in days (24h and 168h).
AccessExpiry  == 1
RefreshExpiry == 7

\* time.Time to Unix seconds and back is exact at whole seconds; here both
\* are the day count, and a *NumericDate is {} (nil) or {t}.
Nil == {}
NewNumericDate(t) == {t}

EmptyObject == [k \in {} |-> ""]

\* A member id travels as a decimal string: a sequence of characters, the
\* digits being 0..9 and any other character a number from 10 up.
EmptyString == << >>

\* json.Marshal(Claims).  Claims.ExpiresAt and Claims.IssuedAt carry the tags
\* "exp" and "iat" at depth 0; the embedded RegisteredClaims carries the same
\* tags at depth 1, so encoding/json drops the embedded two and writes the
\* outer int64 fields.  iss and sub are omitempty.
MarshalClaims(c) ==
    [member_id |-> c.MemberID, email |-> c.Email, token_type |-> c.TokenType,
     exp |-> c.ExpiresAt, iat |-> c.IssuedAt]
    @@ (IF c.Registered.Issuer # "" THEN [iss |-> c.Registered.Issuer] ELSE EmptyObject)
    @@ (IF c.Registered.Subject # EmptyString THEN [sub |-> c.Registered.Subject] ELSE EmptyObject)

Field(obj, k, zero) == IF k \in DOMAIN obj THEN obj[k] ELSE zero

\* json.Unmarshal into &Claims{}: by the same field rule "exp" and "iat" fill
\* the outer int64 fields only; RegisteredClaims.ExpiresAt and .IssuedAt stay nil.
UnmarshalClaims(obj) ==
    [MemberID  |-> Field(obj, "member_id", EmptyString),
     Email     |-> Field(obj, "email", ""),
     TokenType |-> Field(obj, "token_type", ""),
     ExpiresAt |-> Field(obj, "exp", 0),
     IssuedAt  |-> Field(obj, "iat", 0),
     Registered |-> [Issuer    |-> Field(obj, "iss", ""),
                     Subject   |-> Field(obj, "sub", EmptyString),
                     ExpiresAt |-> Nil,
                     IssuedAt  |-> Nil]]

HMAC(key, alg, payload) == [key |-> key, alg |-> alg, over |-> payload]

\* jwt.NewWithClaims(jwt.SigningMethodHS256, claims).SignedString(key)
SignedString(key, claims) ==
    LET payload == MarshalClaims(claims) IN
    [form |-> "jwt", alg |-> "HS256", payload |-> payload,
     sig |-> HMAC(key, "HS256", payload)]

GenerateAccessToken(memberID, email, t) ==
    LET expiresAt == t + AccessExpiry
        claims == [MemberID |-> memberID, Email |-> email,
                   ExpiresAt |-> expiresAt, TokenType |-> ACCESS, IssuedAt |-> t,
                   Registered |-> [ExpiresAt |-> NewNumericDate(expiresAt),
                                   IssuedAt |-> NewNumericDate(t),
                                   Issuer |-> Issuer, Subject |-> EmptyString]]
    IN [token |-> SignedString(Secret, claims), err |-> NilErr]

GenerateRefreshToken(memberID, email, t) ==
    LET expiresAt == t + RefreshExpiry
        claims == [MemberID |-> memberID, Email |-> email,
                   TokenType |-> REFRESH, ExpiresAt |-> expiresAt, IssuedAt |-> t,
                   Registered |-> [Subject |-> memberID,
                                   ExpiresAt |-> NewNumericDate(expiresAt),
                                   IssuedAt |-> NewNumericDate(t),
                                   Issuer |-> Issuer]]
    IN [token |-> SignedString(Secret, claims), err |-> NilErr]

\* The token package's own sentinels (errors.New): not domain errors.
TokenErrInvalidToken  == PlainError("token: invalid token")
TokenErrExpiredToken  == PlainError("token: expired token")
TokenErrInvalidClaims == PlainError("token: invalid claims")

ZeroClaims == UnmarshalClaims(EmptyObject)

\* A slip: a parser built without WithValidMethods.
ParseWithClaimsAnyMethod(tok, key, t) ==
    IF tok.form # "jwt" THEN [claims |-> ZeroClaims, jwtErr |-> "ErrTokenMalformed"]
    ELSE IF tok.sig # HMAC(key, tok.alg, tok.payload) THEN
        [claims |-> UnmarshalClaims(tok.payload), jwtErr |-> "ErrTokenSignatureInvalid"]
    ELSE [claims |-> UnmarshalClaims(tok.payload), jwtErr |-> ""]

\* parser.ParseWithClaims(tokenString, &Claims{}, keyfunc) of golang-jwt v5 with
\* WithValidMethods({"HS256"}): split and decode the segments, check the
\* algorithm, verify the signature with the key, then validate the registered
\* claims through claims.GetExpirationTime() = Registered.ExpiresAt (exp is
\* optional: nil passes).  Result: the decoded claims and the jwt error, "" for none.
ParseWithClaims(tok, key, t) ==
    IF tok.form \notin {"jwt", "badclaims"} THEN
        [claims |-> ZeroClaims, jwtErr |-> "ErrTokenMalformed"]
    ELSE IF tok.form = "badclaims" THEN
        [claims |-> ZeroClaims, jwtErr |-> "ErrTokenMalformed"]
    ELSE LET claims == UnmarshalClaims(tok.payload) IN
        IF tok.alg # "HS256" THEN
            [claims |-> claims, jwtErr |-> "ErrTokenSignatureInvalid"]
        ELSE IF tok.sig # HMAC(key, tok.alg, tok.payload) THEN
            [claims |-> claims, jwtErr |-> "ErrTokenSignatureInvalid"]
        ELSE IF \E e \in claims.Registered.ExpiresAt : ~(t < e) THEN
            [claims |-> claims, jwtErr |-> "ErrTokenExpired"]
        ELSE [claims |-> claims, jwtErr |-> ""]

\* A slip: the signature check left out.
ValidateTokenUnverified(tok, t) ==
    IF tok.form # "jwt" THEN [claims |-> ZeroClaims, err |-> TokenErrInvalidToken]
    ELSE [claims |-> UnmarshalClaims(tok.payload), err |-> NilErr]

\* JWTManager.ValidateToken.  token.Claims.(*Claims) always holds (the parser
\* was handed &Claims{}), and token.Valid is true when err is nil.
ValidateToken(tok, t) ==
    LET parsed == ParseWithClaims(tok, Secret, t) IN
    IF parsed.jwtErr # "" THEN
        IF parsed.jwtErr = "ErrTokenExpired"
        THEN [claims |-> ZeroClaims, err |-> TokenErrExpiredToken]
        ELSE [claims |-> ZeroClaims, err |-> TokenErrInvalidToken]
    ELSE [claims |-> parsed.claims, err |-> NilErr]

-----------------------------------------------------------------------------
(* Request bodies and their binding (gin ShouldBindJSON with the struct     *)
(* tags of SignupRequest and LoginRequest).  A missing field and an empty   *)
(* one are the same zero value "" to the validator.                         *)

GoodPhones == {"010-1234-5678", "010-9876-5432"}

\* utf8.RuneCountInString on the strings the model uses.
RuneLen(str) ==
    CASE str = ""  -> 0
      [] str \in {"A", "B"} -> 1
      [] str = "short" -> 5
      [] str \in {"password1", "password2"} -> 9
      [] str \in {"a@x.com", "b@x.com"} -> 7
      [] str \in GoodPhones -> 13
      [] str = "12345" -> 5
      [] OTHER -> 20

\* validator's "email" tag and the custom "phone" tag (phoneRegex).
IsEmail(str) == str \in {"a@x.com", "b@x.com"}
ValidatePhone(str) == str \in GoodPhones

\* A slip: the password's min=8 left out of the binding tag.
SignupRequestTagNoMin(b) ==
    CASE b.name = ""                 -> "required"
      [] b.email = ""                -> "required"
      [] ~IsEmail(b.email)           -> "email"
      [] b.phoneNumber = ""          -> "required"
      [] ~ValidatePhone(b.phoneNumber) -> "phone"
      [] b.password = ""             -> "required"
      [] OTHER                       -> ""

\* The first failing tag of a SignupRequest, "" when it validates.
SignupRequestTag(b) ==
    CASE b.name = ""                 -> "required"
      [] RuneLen(b.name) > 20        -> "max"
      [] b.email = ""                -> "required"
      [] ~IsEmail(b.email)           -> "email"
      [] RuneLen(b.email) > 50       -> "max"
      [] b.phoneNumber = ""          -> "required"
      [] ~ValidatePhone(b.phoneNumber) -> "phone"
      [] b.password = ""             -> "required"
      [] RuneLen(b.password) < 8     -> "min"
      [] RuneLen(b.password) > 15    -> "max"
      [] OTHER                       -> ""

LoginRequestTag(b) ==
    CASE b.email = ""                -> "required"
      [] ~IsEmail(b.email)           -> "email"
      [] b.password = ""             -> "required"
      [] RuneLen(b.password) < 8     -> "min"
      [] RuneLen(b.password) > 15    -> "max"
      [] OTHER                       -> ""

getErrorMessage(tag) ==
    CASE tag = "required" -> "required field missing"
      [] tag = "email"    -> "invalid email format"
      [] tag = "min"      -> "too short"
      [] tag = "max"      -> "too long"
      [] tag = "phone"    -> "invalid phone number"
      [] OTHER            -> "invalid field"

\* validator.ToErrorResponse: ValidationFailed with the first error's message.
ToErrorResponse(tag) == [ValidationFailed EXCEPT !.message = getErrorMessage(tag)]

\* A response written with c.JSON(status, body).
Write(status, body) == [status |-> status, body |-> body]

\* A slip: a failed binding that returns without a response.
BindJSONNoResponse(b, tag) ==
    [ok |-> b.json = "ok" /\ tag = "", writes |-> << >>]

\* handler.BindJSON: ok, or the 400 it wrote.
BindJSON(b, tag) ==
    IF b.json # "ok" THEN
        [ok |-> FALSE, writes |-> << Write(InvalidRequest.status, InvalidRequest) >>]
    ELSE IF tag # "" THEN
        [ok |-> FALSE, writes |-> << Write(400, ToErrorResponse(tag)) >>]
    ELSE [ok |-> TRUE, writes |-> << >>]

\* The tail the three handlers share: if err != nil, ResolveDomainError and
\* RespondError with its response, else RespondError with InternalServerError;
\* with a nil error the handler writes its success response.
RespondService(reg, err, okStatus, okBody) ==
    IF err # NilErr THEN
        LET r == ResolveDomainError(reg, err) IN
        IF r.found THEN << Write(r.resp.status, r.resp) >>
        ELSE << Write(InternalServerError.status, InternalServerError) >>
    ELSE << Write(okStatus, okBody) >>

-----------------------------------------------------------------------------
(* Storage: the member table behind gorm, and bcrypt.                       *)

\* What a failing storage call returns (connection lost, context deadline,
\* ...), gorm's not-found sentinel, the unique index's rejection, and a
\* failing bcrypt.GenerateFromPassword.
\* A slip: the index's rejection reported as the domain's conflict.
UniqueViolationAsConflict == ErrMemberAlreadyExists

StorageFailure    == PlainError("storage: call failed")
ErrRecordNotFound == PlainError("record not found")
UniqueViolation   == PlainError("unique constraint idx_member_email violated")
HashFailure       == PlainError("bcrypt: failure")

\* A slip: the password kept as it came.
StorePlaintext(password) == password

\* bcrypt.GenerateFromPassword / CompareHashAndPassword: one-way, and a hash
\* verifies exactly the password it was made from.
GenerateFromPassword(password) ==
    CASE password = "password1" -> "$2a$10$hash-of-password1"
      [] password = "password2" -> "$2a$10$hash-of-password2"
      [] OTHER                  -> "$2a$10$hash-of-other"

CompareHashAndPassword(hash, password) == hash = GenerateFromPassword(password)

\* model.NewMember; the id is assigned by the table's auto-increment on Create.
NewMember(name, email, phoneNumber, password) ==
    [id |-> 0, email |-> email, name |-> name,
     phoneNumber |-> phoneNumber, password |-> password]

\* A slip: the existence check always answers false.
IsExistNever(rows, email) == FALSE

\* MemberRepository.IsExist: count(email = ?) > 0
IsExist(rows, email) == Cardinality({m \in rows : m.email = email}) > 0

\* A table without the unique index.
UniqueIndexOff(rows, email) == FALSE

\* uniqueIndex:idx_member_email on Member.Email
UniqueIndexViolated(rows, email) == \E m \in rows : m.email = email

\* MemberRepository.FindByEmail / FindByID: First(&member), {} for not found.
FindByEmail(rows, email) == {m \in rows : m.email = email}
FindByID(rows, id) == {m \in rows : m.id = id}

-----------------------------------------------------------------------------
(* Member ids as decimal strings.                                           *)

\* strconv.FormatUint(uint64(id), 10)
RECURSIVE FormatUint(_)
FormatUint(n) == IF n < 10 THEN << n >> ELSE FormatUint(n \div 10) \o << n % 10 >>

\* 2^32 - 1 in decimal: the largest value ParseUint(s, 10, 32) accepts.  The
\* range test is made on the digits, the value being beyond a 32-bit signed
\* integer.
MaxUint32Digits == << 4, 2, 9, 4, 9, 6, 7, 2, 9, 5 >>

RECURSIVE StripZeros(_)
StripZeros(str) ==
    IF Len(str) > 1 /\ str[1] = 0 THEN StripZeros(Tail(str)) ELSE str

\* a <= b for digit strings of one length
RECURSIVE DigitsLeq(_, _)
DigitsLeq(a, b) ==
    IF a = << >> THEN TRUE
    ELSE IF a[1] # b[1] THEN a[1] < b[1]
    ELSE DigitsLeq(Tail(a), Tail(b))

RECURSIVE DigitsValue(_, _)
DigitsValue(str, acc) ==
    IF str = << >> THEN acc ELSE DigitsValue(Tail(str), acc * 10 + str[1])

\* strconv.ParseUint(idStr, 10, 32): digits only, at least one, at most 2^32-1.
ParseUint(str) ==
    LET digits == StripZeros(str) IN
    IF str = EmptyString \/ \E i \in 1..Len(str) : str[i] > 9 THEN
        [value |-> 0, ok |-> FALSE]
    ELSE IF Len(digits) > Len(MaxUint32Digits)
            \/ (Len(digits) = Len(MaxUint32Digits) /\ ~DigitsLeq(digits, MaxUint32Digits))
         THEN [value |-> 0, ok |-> FALSE]
    ELSE [value |-> DigitsValue(digits, 0), ok |-> TRUE]

-----------------------------------------------------------------------------
(* shared/middleware: the JWT middleware, and shared/context.               *)

BearerScheme == "Bearer"

ToLower(str) ==
    CASE str \in {"Bearer", "bearer", "BEARER"} -> "bearer"
      [] str = "Basic" -> "basic"
      [] OTHER -> str

\* strings.EqualFold
EqualFold(a, b) == ToLower(a) = ToLower(b)

NoToken == [form |-> "malformed"]

\* An Authorization header is the result of strings.SplitN(header, " ", 2):
\* n = 0 is the empty header, n = 1 a header without a space.
NoHeader == [n |-> 0, scheme |-> "", token |-> NoToken]

extractToken(header) ==
    IF header.n = 0 THEN [token |-> NoToken, err |-> ErrMissingToken]
    ELSE IF header.n # 2 \/ ~EqualFold(header.scheme, BearerScheme)
         THEN [token |-> NoToken, err |-> ErrInvalidToken]
         ELSE [token |-> header.token, err |-> NilErr]

mapTokenError(err) ==
    IF ErrorsIs(err, TokenErrExpiredToken) THEN ErrExpiredToken
    ELSE IF ErrorsIs(err, TokenErrInvalidClaims) THEN ErrInvalidClaims
    ELSE ErrInvalidToken

NoKeys == [k \in {} |-> ""]

\* A slip: the response is written but the chain is not aborted.
handleJWTErrorNoAbort(reg, err) ==
    LET r == ResolveDomainError(reg, err) IN
    [writes |-> << Write(r.resp.status, r.resp) >>, aborted |-> FALSE]

\* handleJWTError: the resolved response, or the AUTH-999 fallback; c.Abort().
handleJWTError(reg, err) ==
    LET r == ResolveDomainError(reg, err) IN
    [writes |-> IF r.found THEN << Write(r.resp.status, r.resp) >>
                ELSE << Write(401, ErrorResponse(401, "AUTH-999", "authentication failed")) >>,
     aborted |-> TRUE]

\* The handler JWT(cfg) returns, run on a request: the gin context it leaves
\* (the keys set, whether the chain was aborted, what was written), with the
\* errors it met.
JWT(reg, header, t) ==
    LET ex == extractToken(header)
        v  == ValidateToken(ex.token, t)
    IN  IF ex.err # NilErr THEN
            handleJWTError(reg, ex.err) @@
            [keys |-> NoKeys, extractErr |-> ex.err, tokenErr |-> NilErr,
             jwtErr |-> ex.err]
        ELSE IF v.err # NilErr THEN
            handleJWTError(reg, mapTokenError(v.err)) @@
            [keys |-> NoKeys, extractErr |-> NilErr, tokenErr |-> v.err,
             jwtErr |-> mapTokenError(v.err)]
        ELSE
            [writes |-> << >>, aborted |-> FALSE,
             keys |-> [member_id |-> v.claims.MemberID, member_email |-> v.claims.Email],
             extractErr |-> NilErr, tokenErr |-> NilErr, jwtErr |-> NilErr]

\* A slip: a key that does not parse taken for member 0.
GetMemberIDUnchecked(keys) ==
    IF "member_id" \notin DOMAIN keys THEN [value |-> 0, ok |-> FALSE]
    ELSE [value |-> ParseUint(keys.member_id).value, ok |-> TRUE]

\* sharedContext.GetMemberID: the key is set and parses as a uint32.
GetMemberID(keys) ==
    IF "member_id" \notin DOMAIN keys THEN [value |-> 0, ok |-> FALSE]
    ELSE ParseUint(keys.member_id)

-----------------------------------------------------------------------------
(* member: the profile service and handler.                                 *)

\* A slip: the row itself is rendered, password hash included.
MarshalMember(m) == m

\* json.Marshal(GetProfileResponse): phoneNumber is omitempty.
MarshalProfile(m) ==
    [id |-> m.id, name |-> m.name, email |-> m.email]
    @@ (IF m.phoneNumber # "" THEN [phoneNumber |-> m.phoneNumber] ELSE EmptyObject)

\* A slip: gorm's not-found passed on like any other storage error.
GetProfileNotFoundUntranslated == Wrapf("member lookup failed:", ErrRecordNotFound)

\* GetProfile translates gorm.ErrRecordNotFound into the domain error.
GetProfileNotFound == Wrapf("error", ErrMemberNotFound)

\* MemberService.GetProfile inside WithTransaction; outcome is what the
\* storage does: "ok" or "db" (a failing call).
MemberServiceGetProfile(rows, memberID, outcome) ==
    LET found == FindByID(rows, memberID) IN
    IF outcome = "db" THEN
        [body |-> EmptyObject, err |-> Wrapf("member lookup failed:", StorageFailure)]
    ELSE IF found = {} THEN
        [body |-> EmptyObject, err |-> GetProfileNotFound]
    ELSE [body |-> MarshalProfile(CHOOSE m \in found : TRUE), err |-> NilErr]

\* MemberHandler.GetProfile run on the context the middleware left.
GetProfileHandler(reg, keys, rows, outcome) ==
    LET id == GetMemberID(keys) IN
    IF ~id.ok THEN
        [writes |-> << Write(401, LoginPlease) >>, aborted |-> TRUE,
         svc |-> FALSE, memberID |-> 0, err |-> NilErr]
    ELSE LET r == MemberServiceGetProfile(rows, id.value, outcome) IN
        [writes |-> RespondService(reg, r.err, 200, r.body), aborted |-> FALSE,
         svc |-> TRUE, memberID |-> id.value, err |-> r.err]

-----------------------------------------------------------------------------
(* shared/logger: MaskEmail.  A Go string is a sequence of bytes; a byte is *)
(* written here as a one-character string for ASCII and as its two hex      *)
(* digits otherwise ("C3" "A9" are the two bytes of the character e-acute). *)

Stars == << "*", "*", "*" >>

\* strings.Split(email, "@"): the pieces between the '@' bytes.
RECURSIVE Split(_)
Split(str) ==
    IF \A i \in 1..Len(str) : str[i] # "@" THEN << str >>
    ELSE LET i == CHOOSE k \in 1..Len(str) :
                     str[k] = "@" /\ \A j \in 1..(k - 1) : str[j] # "@"
         IN << SubSeq(str, 1, i - 1) >> \o Split(SubSeq(str, i + 1, Len(str)))

MaskEmail(email) ==
    IF email = << >> THEN << >>
    ELSE LET parts == Split(email) IN
         IF Len(parts) # 2 THEN Stars \o << "@" >> \o Stars
         ELSE LET username == parts[1]
                  domain   == parts[2]
              IN IF Len(username) = 0 THEN Stars \o << "@" >> \o domain
                 ELSE SubSeq(username, 1, 1) \o Stars \o << "@" >> \o domain

\* The bytes of the strings requests carry.
Bytes(str) ==
    CASE str = "a@x.com" -> << "a", "@", "x", ".", "c", "o", "m" >>
      [] str = "b@x.com" -> << "b", "@", "x", ".", "c", "o", "m" >>
      [] str = ""        -> << >>

-----------------------------------------------------------------------------
(* Logging: slog through logger.Setup, and gorm's statements through        *)
(* GormLogger.Trace.  A log entry is its level, its message, the email      *)
(* attribute (bytes, << >> when it has none), the texts of the error        *)
(* attribute and the sql attribute.  gorm hands Trace the statement with    *)
(* its bound values written into it (Dialector.Explain; GormLogger has no   *)
(* ParamsFilter): an sql attribute is the statement and those values.       *)

\* The -env flag's default.
Env == "local"

IsProduction(env) == env = "prod"

\* logger.Setup: the level is Debug for local, dev and development, else Info.
DebugEnabled(env) == env \in {"local", "dev", "development"}

NoSql == [text |-> "", values |-> << >>]

LogEntry(level, msg, email, err, sql) ==
    [level |-> level, msg |-> msg, email |-> email,
     error |-> ErrorTexts(err), sql |-> sql]

\* The statements of MemberRepository.
IsExistSql(email) ==
    [text |-> "SELECT count(*) FROM member WHERE email = ?", values |-> << email >>]
FindByEmailSql(email) ==
    [text |-> "SELECT * FROM member WHERE email = ? LIMIT 1", values |-> << email >>]
FindByIDSql(id) ==
    [text |-> "SELECT * FROM member WHERE id = ? LIMIT 1", values |-> << >>]
CreateSql(m) ==
    [text |-> "INSERT INTO member (email, name, phone_number, password) VALUES (?, ?, ?, ?)",
     values |-> << m.email, m.name, m.phoneNumber, m.password >>]

\* GormLogger.Trace with LogLevel Error and HideSqlInLog in production, Info
\* and not hidden elsewhere, IgnoreRecordNotFound set; the slow-query branch
\* is left out (no statement is slow).  The entries that reach the log.
Trace(env, err, sql) ==
    IF err # NilErr /\ ~ErrorsIs(err, ErrRecordNotFound)
    THEN << LogEntry("ERROR", "Database query error", << >>, err, sql) >>
    ELSE IF ~IsProduction(env) /\ DebugEnabled(env)
    THEN << LogEntry("DEBUG", "SQL query executed", << >>, NilErr, sql) >>
    ELSE << >>

\* LoggerMiddleware: one entry per request, with c.Errors when there are any.
RequestLog(status, err) ==
    << LogEntry(IF status >= 500 THEN "ERROR" ELSE IF status >= 400 THEN "WARN" ELSE "INFO",
                "Request processed", << >>, err, NoSql) >>

\* The validator's or the JSON decoder's error BindJSON hands to c.Error: it
\* names the field and the tag, or the offending character, never a value.
BindError == PlainError("binding: field validation failed")

-----------------------------------------------------------------------------
(* auth: the login service.                                                 *)

\* A slip: an unknown email reported as its own error.
LoginEmailNotFoundRevealed == Wrapf("error", ErrMemberNotFound)

\* What Login returns when FindByEmail finds no row.
LoginEmailNotFound == Wrapf("error", ErrInCorrectEmailPassword)

\* The token.Manager of the service (JWTManager, or the MockTokenManager of
\* the tests): its calls may return an error.
SigningFailure == PlainError("token: signing failed")

ManagerAccessToken(memberID, email, t, outcome) ==
    IF outcome = "access" THEN [token |-> NoToken, err |-> SigningFailure]
    ELSE GenerateAccessToken(memberID, email, t)

ManagerRefreshToken(memberID, email, t, outcome) ==
    IF outcome = "refresh" THEN [token |-> NoToken, err |-> SigningFailure]
    ELSE GenerateRefreshToken(memberID, email, t)

\* A slip: a failing token manager reported as wrong credentials.
LoginTokenFailureAsCredentials(step, err) == Wrapf("error", ErrInCorrectEmailPassword)

\* What Login returns when a token could not be generated.
LoginTokenFailure(step, err) == Wrapf(step, err)

\* AuthService.Login; outcome is what its environment does: "ok", "db" (the
\* storage call fails), "access" or "refresh" (that token is not generated).
AuthServiceLogin(rows, req, t, outcome) ==
    LET found == FindByEmail(rows, req.email) IN
    IF outcome = "db" THEN
        [body |-> EmptyObject, found |-> {},
         err |-> Wrapf("login failed:", StorageFailure)]
    ELSE IF found = {} THEN
        [body |-> EmptyObject, found |-> found, err |-> LoginEmailNotFound]
    ELSE LET member == CHOOSE m \in found : TRUE
             memberID == FormatUint(member.id)
             access == ManagerAccessToken(memberID, member.email, t, outcome)
             refresh == ManagerRefreshToken(memberID, member.email, t, outcome)
         IN  IF ~CompareHashAndPassword(member.password, req.password) THEN
                 [body |-> EmptyObject, found |-> found,
                  err |-> Wrapf("error", ErrInCorrectEmailPassword)]
             ELSE IF access.err # NilErr THEN
                 [body |-> EmptyObject, found |-> found,
                  err |-> LoginTokenFailure("generate access token:", access.err)]
             ELSE IF refresh.err # NilErr THEN
                 [body |-> EmptyObject, found |-> found,
                  err |-> LoginTokenFailure("generate refresh token:", refresh.err)]
             ELSE [body |-> [accessToken |-> access.token,
                             refreshToken |-> refresh.token],
                   found |-> found, err |-> NilErr]

\* What AuthService.Login and the statement it runs write to the log.
AuthServiceLoginLogs(rows, req, outcome) ==
    LET found  == FindByEmail(rows, req.email)
        sql    == FindByEmailSql(req.email)
        masked == MaskEmail(Bytes(req.email))
    IN  IF outcome = "db" THEN
            Trace(Env, StorageFailure, sql)
            \o << LogEntry("ERROR", "login failed - unknown error", << >>,
                           StorageFailure, NoSql) >>
        ELSE IF found = {} THEN
            Trace(Env, ErrRecordNotFound, sql)
            \o << LogEntry("WARN", "login failed - member email not found", masked,
                           NilErr, NoSql) >>
        ELSE IF \E m \in found : ~CompareHashAndPassword(m.password, req.password) THEN
            Trace(Env, NilErr, sql)
            \o << LogEntry("WARN", "login failed - invalid password", masked,
                           NilErr, NoSql) >>
        ELSE IF outcome \in {"access", "refresh"} THEN
            Trace(Env, NilErr, sql)
            \o << LogEntry("ERROR", "token generation failed", << >>,
                           SigningFailure, NoSql) >>
        ELSE
            Trace(Env, NilErr, sql)
            \o << LogEntry("INFO", "login success", masked, NilErr, NoSql) >>

\* What MemberService.GetProfile and its statement write to the log.
MemberServiceGetProfileLogs(rows, memberID, outcome) ==
    LET sql == FindByIDSql(memberID) IN
    IF outcome = "db" THEN
        Trace(Env, StorageFailure, sql)
        \o << LogEntry("ERROR", "member lookup failed", << >>, StorageFailure, NoSql) >>
    ELSE IF FindByID(rows, memberID) = {} THEN
        Trace(Env, ErrRecordNotFound, sql)
        \o << LogEntry("WARN", "member not found", << >>, NilErr, NoSql) >>
    ELSE Trace(Env, NilErr, sql)

\* What the JWT middleware writes to the log: the failing step's error.
JWTLogs(c) ==
    IF c.extractErr # NilErr THEN
        << LogEntry("WARN", "JWT token extraction failed", << >>, c.extractErr, NoSql) >>
    ELSE IF c.tokenErr # NilErr THEN
        << LogEntry("WARN", "JWT token validation failed", << >>, c.tokenErr, NoSql) >>
    ELSE << >>

-----------------------------------------------------------------------------
(* What clients send.                                                       *)

Json(name, email, phoneNumber, password) ==
    [json |-> "ok", name |-> name, email |-> email,
     phoneNumber |-> phoneNumber, password |-> password]

SignupBodies ==
    { Json("A", "a@x.com", "010-1234-5678", "password1"),
      Json("B", "a@x.com", "010-9876-5432", "password2"),
      Json("B", "b@x.com", "010-9876-5432", "password1"),
      Json("",  "a@x.com", "010-1234-5678", "password1"),
      Json("A", "a@x.com", "010-1234-5678", "short"),
      Json("A", "",  "010-1234-5678", "password1"),
      Json("A", "a@x.com", "", "password1"),
      Json("A", "a@x.com", "010-1234-5678", ""),
      Json("A", "invalid-email-format", "010-1234-5678", "password1"),
      [Json("", "", "", "") EXCEPT !.json = "malformed"] }

LoginJson(email, password) == [json |-> "ok", email |-> email, password |-> password]

LoginBodies ==
    { LoginJson(e, pw) : e \in {"a@x.com", "b@x.com"},
                         pw \in {"password1", "password2"} }
    \cup { LoginJson("invalid-email-format", "password1"),
           [LoginJson("", "") EXCEPT !.json = "malformed"] }

NoTokens == [has |-> FALSE]

\* The token strings a client may put after the scheme: the pair it holds,
\* copies of its access token altered in one place, and strings that are no
\* token of this server.
AlteredTokens(a, r) ==
    { [a EXCEPT !.sig = HMAC("attacker-key", "HS256", a.payload)],
      [a EXCEPT !.sig = r.sig],
      [a EXCEPT !.payload = r.payload],
      [a EXCEPT !.alg = "none", !.sig = HMAC("", "none", a.payload)],
      [a EXCEPT !.alg = "HS512", !.sig = HMAC(Secret, "HS512", a.payload)],
      [a EXCEPT !.alg = "RS256", !.sig = HMAC(Secret, "RS256", a.payload)],
      [a EXCEPT !.form = "badclaims"] }

ClientTokens(h) ==
    {NoToken} \cup
    (IF h.has THEN {h.accessToken, h.refreshToken}
                   \cup AlteredTokens(h.accessToken, h.refreshToken)
     ELSE {})

Headers(h) ==
    { NoHeader, [n |-> 1, scheme |-> "Bearer", token |-> NoToken] }
    \cup { [n |-> 2, scheme |-> "Bearer", token |-> tok] : tok \in ClientTokens(h) }
    \cup (IF h.has
          THEN { [n |-> 2, scheme |-> sch, token |-> h.accessToken] :
                    sch \in {"bearer", "Basic"} }
          ELSE {})

\* What a storage call may do.
Outcomes == {"ok", "db"}

-----------------------------------------------------------------------------
(* The state machine.                                                       *)

NoRequest == [route |-> "none"]

Init ==
    /\ inited = {}
    /\ phase = "init"
    /\ domainErrorResponses = [k \in {} |-> ZeroErrorResponse]
    /\ members = {}
    /\ nextID = 1
    /\ txs = EmptyBag
    /\ now = 0
    /\ held = NoTokens
    /\ last = NoRequest

\* A package's init() runs, after those of the packages it imports.
InitPackage(p) ==
    /\ phase = "init"
    /\ p \notin inited
    /\ Imports(p) \subseteq inited
    /\ inited' = inited \cup {p}
    /\ domainErrorResponses' = PackageInit(p, domainErrorResponses)
    /\ UNCHANGED <<phase, members, nextID, txs, now, held, last>>

\* main: every package is initialised; the server starts to accept requests.
StartServer ==
    /\ phase = "init"
    /\ inited = Packages
    /\ phase' = "serving"
    /\ UNCHANGED <<inited, domainErrorResponses, members, nextID, txs, now, held, last>>

\* A slip: the production guard left out.
MigrateUnguarded(rows, env, isAutoMigrate) ==
    IF ~isAutoMigrate THEN [rows |-> rows, dropped |-> FALSE, err |-> NilErr]
    ELSE [rows |-> {}, dropped |-> TRUE, err |-> NilErr]

\* database.Migrate, run by database.New when the process starts: with
\* DB_AUTO_MIGRATE set, outside production, the member table is dropped and
\* created again, its rows and its identity sequence with it.
Migrate(rows, env, isAutoMigrate) ==
    IF ~isAutoMigrate THEN [rows |-> rows, dropped |-> FALSE, err |-> NilErr]
    ELSE IF env = "prod" \/ env = "production" THEN
        [rows |-> rows, dropped |-> FALSE,
         err |-> PlainError("auto migrate is not allowed in production")]
    ELSE [rows |-> {}, dropped |-> TRUE, err |-> NilErr]

\* The process is stopped, no request in flight, and started again: the
\* packages' init() build the same registry, database.New runs Migrate, and
\* the server accepts requests again.  Clients keep the tokens they hold.
Restart(isAutoMigrate) ==
    LET m == Migrate(members, Env, isAutoMigrate) IN
    /\ phase = "serving"
    /\ last = NoRequest
    /\ txs = EmptyBag
    /\ m.err = NilErr
    /\ members' = m.rows
    /\ nextID' = IF m.dropped THEN 1 ELSE nextID
    /\ UNCHANGED <<inited, phase, domainErrorResponses, txs, now, held, last>>

Tick ==
    /\ phase = "serving"
    /\ last = NoRequest
    /\ now < MaxTime
    /\ now' = now + 1
    /\ UNCHANGED <<inited, phase, domainErrorResponses, members, nextID, txs, held, last>>

\* A request answered: what was asked, the handlers that ran, the service's
\* error and whether the service was called, and what was written.  The
\* answer stays in `last` until the client has read it (Deliver), and the
\* server's next step is taken after that: while `last` holds an answer, the
\* other variables are as the request left them.
Answer(route, req, ran, svc, err, writes) ==
    [route |-> route, req |-> req, ran |-> ran, svc |-> svc,
     err |-> err, writes |-> writes]

SignupAnswer(req, svc, err, writes, prior, overlapped) ==
    Answer("signup", req, << "Signup" >>, svc, err, writes)
    @@ [prior |-> prior, overlapped |-> overlapped]

\* Another Signup for the same email is in flight.
Racing(email) == \E tx \in BagToSet(txs) : tx.body.email = email

RECURSIVE SumCopies(_, _)
SumCopies(S, B) ==
    IF S = {} THEN 0
    ELSE LET tx == CHOOSE e \in S : TRUE IN B[tx] + SumCopies(S \ {tx}, B)

\* The bag B with every transaction for `email` marked as overlapped.
Overlap(tx, email) ==
    IF tx.body.email = email THEN [tx EXCEPT !.overlapped = TRUE] ELSE tx

MarkOverlapped(B, email) ==
    IF B = EmptyBag THEN EmptyBag
    ELSE [x \in {Overlap(tx, email) : tx \in BagToSet(B)} |->
             SumCopies({tx \in BagToSet(B) : Overlap(tx, email) = x}, B)]

\* AuthHandler.Signup up to the insert: BindJSON, then inside the transaction
\* IsExist and the password hash.  A request that fails here is answered at
\* once (the transaction rolls back, nothing was written).
SignupBegin(body, outcome) ==
    LET bind  == BindJSON(body, SignupRequestTag(body))
        prior == \E m \in members : m.email = body.email
        err   == IF outcome = "db" THEN
                     Wrapf("check member existence:", StorageFailure)
                 ELSE IF IsExist(members, body.email) THEN
                     Wrapf("error", ErrMemberAlreadyExists)
                 ELSE IF outcome = "hash" THEN
                     Wrapf("hash password:", HashFailure)
                 ELSE NilErr
        query == Trace(Env, IF outcome = "db" THEN StorageFailure ELSE NilErr,
                       IsExistSql(body.email))
        note  == IF outcome = "db" THEN
                     LogEntry("ERROR", "Failed to check member existence", << >>,
                              StorageFailure, NoSql)
                 ELSE IF IsExist(members, body.email) THEN
                     LogEntry("WARN", "Member already exists",
                              MaskEmail(Bytes(body.email)), NilErr, NoSql)
                 ELSE LogEntry("ERROR", "Failed to hash password", << >>,
                               HashFailure, NoSql)
        resp  == RespondService(domainErrorResponses, err, 201, EmptyObject)
        tx    == [pc |-> "create", body |-> body, prior |-> prior,
                  member |-> NewMember(body.name, body.email, body.phoneNumber,
                                       GenerateFromPassword(body.password)),
                  overlapped |-> Racing(body.email), logs |-> query]
    IN
    /\ phase = "serving"
    /\ last = NoRequest
    /\ BagCardinality(txs) < MaxInFlight
    /\ IF ~bind.ok THEN
           /\ last' = SignupAnswer(body, FALSE, NilErr, bind.writes, prior, FALSE)
                      @@ [logs |-> RequestLog(400, BindError)]
           /\ txs' = txs
       ELSE IF err # NilErr THEN
           /\ last' = SignupAnswer(body, TRUE, err, resp, prior, Racing(body.email))
                      @@ [logs |-> query \o << note >> \o RequestLog(resp[1].status, err)]
           /\ txs' = txs
       ELSE
           /\ txs' = MarkOverlapped(txs, body.email) (+) SetToBag({tx})
           /\ last' = last
    /\ UNCHANGED <<inited, phase, domainErrorResponses, members, nextID, now, held>>

\* memberRepository.Create inside the transaction.  The insert waits while
\* another transaction holds an uncommitted row with the same email; it is
\* rejected by the unique index when a committed row has it.
SignupCreate(tx, outcome) ==
    LET cause == IF outcome = "db" THEN StorageFailure
                 ELSE IF UniqueIndexViolated(members, tx.body.email) THEN UniqueViolation
                 ELSE NilErr
        err   == IF cause = NilErr THEN NilErr ELSE Wrapf("create member:", cause)
        query == Trace(Env, cause, CreateSql(tx.member))
        resp  == RespondService(domainErrorResponses, err, 201, EmptyObject)
    IN
    /\ phase = "serving"
    /\ last = NoRequest
    /\ tx.pc = "create"
    /\ nextID <= MaxID
    /\ ~\E o \in BagToSet(txs) : o.pc = "commit" /\ o.body.email = tx.body.email
    /\ IF err # NilErr THEN
           /\ txs' = txs (-) SetToBag({tx})
           /\ last' = SignupAnswer(tx.body, TRUE, err, resp, tx.prior, tx.overlapped)
                      @@ [logs |-> tx.logs \o query
                                   \o << LogEntry("ERROR", "Failed to create member",
                                                  << >>, cause, NoSql) >>
                                   \o RequestLog(resp[1].status, err)]
           /\ nextID' = nextID
       ELSE
           /\ txs' = (txs (-) SetToBag({tx}))
                     (+) SetToBag({[tx EXCEPT
                            !.pc = "commit", !.member.id = nextID,
                            !.logs = tx.logs \o query
                                     \o << LogEntry("INFO", "Member created successfully",
                                                    MaskEmail(Bytes(tx.body.email)),
                                                    NilErr, NoSql) >>]})
           /\ nextID' = nextID + 1
           /\ last' = last
    /\ UNCHANGED <<inited, phase, domainErrorResponses, members, now, held>>

\* A slip: the row stays when the transaction fails.
WithTransactionNoRollback(rows, m, err) == rows \cup {m}

\* database.WithTransaction around an insert of m: gorm commits when the
\* function and the commit return nil, and rolls back otherwise.
WithTransaction(rows, m, err) == IF err = NilErr THEN rows \cup {m} ELSE rows

\* The transaction commits and the handler answers 201, or the commit fails
\* and the row is rolled back.
SignupCommit(tx, outcome) ==
    LET err  == IF outcome = "db" THEN StorageFailure ELSE NilErr
        resp == RespondService(domainErrorResponses, err, 201, EmptyObject)
    IN
    /\ phase = "serving"
    /\ last = NoRequest
    /\ tx.pc = "commit"
    /\ txs' = txs (-) SetToBag({tx})
    /\ members' = WithTransaction(members, tx.member, err)
    /\ last' = SignupAnswer(tx.body, TRUE, err, resp, tx.prior, tx.overlapped)
               @@ [logs |-> tx.logs \o RequestLog(resp[1].status, err)]
    /\ UNCHANGED <<inited, phase, domainErrorResponses, nextID, now, held>>

\* A slip: Login rewrites the row it found.
LoginRowsTouched(rows, req) ==
    { IF m.email = req.email THEN [m EXCEPT !.name = "seen"] ELSE m : m \in rows }

\* The member rows after AuthService.Login: its one statement is the SELECT
\* of FindByEmail.
LoginRows(rows, req) == rows

\* AuthHandler.Login.
Login(body, outcome) ==
    LET bind == BindJSON(body, LoginRequestTag(body))
        r    == AuthServiceLogin(members, body, now, outcome)
        resp == RespondService(domainErrorResponses, r.err, 200, r.body)
    IN
    /\ phase = "serving"
    /\ last = NoRequest
    /\ IF ~bind.ok THEN
           /\ last' = Answer("login", body, << "Login" >>, FALSE, NilErr, bind.writes)
                      @@ [logs |-> RequestLog(400, BindError), fault |-> outcome]
           /\ held' = held
       ELSE
           /\ last' = Answer("login", body, << "Login" >>, TRUE, r.err, resp)
                      @@ [logs |-> AuthServiceLoginLogs(members, body, outcome)
                                   \o RequestLog(resp[1].status, r.err),
                          fault |-> outcome]
           /\ held' = IF r.err = NilErr
                      THEN [has |-> TRUE, accessToken |-> r.body.accessToken,
                            refreshToken |-> r.body.refreshToken]
                      ELSE held
    /\ members' = IF bind.ok THEN LoginRows(members, body) ELSE members
    /\ UNCHANGED <<inited, phase, domainErrorResponses, nextID, txs, now>>

\* GET /api/v1/members/me: the JWT middleware, then, unless it aborted the
\* chain, MemberHandler.GetProfile.
Profile(header, outcome) ==
    LET c == JWT(domainErrorResponses, header, now)
        h == GetProfileHandler(domainErrorResponses, c.keys, members, outcome)
    IN
    /\ phase = "serving"
    /\ last = NoRequest
    /\ last' = IF c.aborted THEN
                   Answer("profile", header, << "JWT" >>, FALSE, NilErr, c.writes)
                   @@ [keys |-> c.keys, aborted |-> TRUE, extractErr |-> c.extractErr,
                       tokenErr |-> c.tokenErr, jwtErr |-> c.jwtErr, memberID |-> 0,
                       logs |-> JWTLogs(c) \o RequestLog(c.writes[1].status, NilErr)]
               ELSE
                   Answer("profile", header, << "JWT", "GetProfile" >>, h.svc, h.err,
                          c.writes \o h.writes)
                   @@ [keys |-> c.keys, aborted |-> h.aborted, extractErr |-> c.extractErr,
                       tokenErr |-> c.tokenErr, jwtErr |-> c.jwtErr,
                       memberID |-> h.memberID, fault |-> outcome,
                       logs |-> JWTLogs(c)
                                \o (IF h.svc
                                    THEN MemberServiceGetProfileLogs(members, h.memberID, outcome)
                                    ELSE << LogEntry("ERROR", "no member id in the context",
                                                     << >>, NilErr, NoSql) >>)
                                \o RequestLog((c.writes \o h.writes)[1].status, h.err)]
    /\ UNCHANGED <<inited, phase, domainErrorResponses, members, nextID, txs, now, held>>

\* meta.Handler.Health: db.HealthCheck pings the database; 503 with the
\* error's text when it fails, 200 with the latency when it answers.
HealthBody(outcome, latency) ==
    IF outcome = "db" THEN
        [status |-> "unhealthy",
         service |-> [name |-> Issuer, environment |-> Env],
         checks |-> [database |-> [status |-> "down",
                                   error |-> ErrorTexts(Wrapf("health check:", StorageFailure))]]]
    ELSE
        [status |-> "healthy",
         service |-> [name |-> Issuer, environment |-> Env, port |-> 8080],
         checks |-> [database |-> [status |-> "up", latency_ms |-> latency]]]

Health(outcome, latency) ==
    /\ phase = "serving"
    /\ last = NoRequest
    /\ last' = [route |-> "health", svc |-> FALSE,
                writes |-> << Write(IF outcome = "db" THEN 503 ELSE 200,
                                    HealthBody(outcome, latency)) >>]
    /\ UNCHANGED <<inited, phase, domainErrorResponses, members, nextID, txs, now, held>>

\* X-Request-ID of the request, or the uuid the RequestID middleware made.
RequestIDs == {"client-request-id", "uuid"}

\* Bootstrap.recoveryHandler: a handler of the chain panicked (a transaction
\* open at that point is rolled back by gorm), gin.CustomRecovery caught it.
recoveryHandler(requestID) ==
    [writes |-> << Write(500, [error |-> "Internal server error",
                               request_id |-> requestID]) >>,
     aborted |-> TRUE]

Paths == {"/health", "/api/v1/auth/signup", "/api/v1/auth/login", "/api/v1/members/me"}

Recovered(path, requestID) ==
    /\ phase = "serving"
    /\ last = NoRequest
    /\ last' = [route |-> "recovered", path |-> path, svc |-> FALSE]
               @@ recoveryHandler(requestID)
    /\ UNCHANGED <<inited, phase, domainErrorResponses, members, nextID, txs, now, held>>

\* The client reads the answer.
Deliver ==
    /\ last # NoRequest
    /\ last' = NoRequest
    /\ UNCHANGED <<inited, phase, domainErrorResponses, members, nextID, txs, now, held>>

Next ==
    \/ \E p \in Packages : InitPackage(p)
    \/ StartServer
    \/ \E isAutoMigrate \in BOOLEAN : Restart(isAutoMigrate)
    \/ Tick
    \/ \E body \in SignupBodies, outcome \in Outcomes \cup {"hash"} :
          SignupBegin(body, outcome)
    \/ \E tx \in BagToSet(txs), outcome \in Outcomes : SignupCreate(tx, outcome)
    \/ \E tx \in BagToSet(txs), outcome \in Outcomes : SignupCommit(tx, outcome)
    \/ \E body \in LoginBodies, outcome \in Outcomes \cup {"access", "refresh"} :
          Login(body, outcome)
    \/ \E header \in Headers(held), outcome \in Outcomes : Profile(header, outcome)
    \/ \E outcome \in Outcomes, latency \in 0..1 : Health(outcome, latency)
    \/ \E path \in Paths, requestID \in RequestIDs : Recovered(path, requestID)
    \/ Deliver

Spec == Init /\ [][Next]_vars

-----------------------------------------------------------------------------
(* The Timeout middleware around a Signup.  The clock counts seconds; the   *)
(* request in flight is held in txs with the deadline of its context.  A    *)
(* call made through db.WithContext(ctx) returns ctx.Err() without running  *)
(* its statement once the context is done, and so does the commit of a      *)
(* transaction begun with that context.                                     *)

DefaultTimeout == 30

DeadlineExceeded == PlainError("context deadline exceeded")

\* A slip: a context that is never done.
ContextNeverDone(deadline, t) == NilErr

\* ctx.Err() of a context.WithTimeout at time t.
ContextErr(deadline, t) == IF t >= deadline THEN DeadlineExceeded ELSE NilErr

TimeoutBodies ==
    { Json("A", "a@x.com", "010-1234-5678", "password1"),
      Json("B", "b@x.com", "010-9876-5432", "password2") }

TickClock ==
    /\ phase = "serving"
    /\ last = NoRequest
    /\ now < MaxClock
    /\ now' = now + 1
    /\ UNCHANGED <<inited, phase, domainErrorResponses, members, nextID, txs, held, last>>

\* Timeout up to c.Next(): the request gets a context with a deadline, and
\* AuthHandler.Signup binds the body and calls the service.
Timeout(body) ==
    /\ phase = "serving"
    /\ last = NoRequest
    /\ txs = EmptyBag
    /\ txs' = SetToBag({[pc |-> "isExist", body |-> body,
                         deadline |-> now + DefaultTimeout,
                         member |-> NewMember(body.name, body.email, body.phoneNumber,
                                              GenerateFromPassword(body.password)),
                         err |-> NilErr, writes |-> << >>,
                         inserted |-> FALSE, committed |-> FALSE]})
    /\ UNCHANGED <<inited, phase, domainErrorResponses, members, nextID, now, held, last>>

\* memberRepository.IsExist with the request's context.
TimeoutIsExist(r) ==
    LET ctx == ContextErr(r.deadline, now)
        err == IF ctx # NilErr THEN Wrapf("check member existence:", ctx)
               ELSE IF IsExist(members, r.body.email)
                    THEN Wrapf("error", ErrMemberAlreadyExists)
               ELSE NilErr
    IN
    /\ r.pc = "isExist"
    /\ txs' = SetToBag({[r EXCEPT !.pc = IF err = NilErr THEN "create" ELSE "respond",
                                  !.err = err]})
    /\ UNCHANGED <<inited, phase, domainErrorResponses, members, nextID, now, held, last>>

\* memberRepository.Create with the request's context.
TimeoutCreate(r) ==
    LET ctx == ContextErr(r.deadline, now) IN
    /\ r.pc = "create"
    /\ nextID <= MaxID
    /\ IF ctx # NilErr THEN
           /\ txs' = SetToBag({[r EXCEPT !.pc = "respond",
                                         !.err = Wrapf("create member:", ctx)]})
           /\ nextID' = nextID
       ELSE
           /\ txs' = SetToBag({[r EXCEPT !.pc = "commit", !.inserted = TRUE,
                                         !.member.id = nextID]})
           /\ nextID' = nextID + 1
    /\ UNCHANGED <<inited, phase, domainErrorResponses, members, now, held, last>>

\* The commit of gorm's Transaction: with the context done the transaction
\* is rolled back and ctx.Err() is what WithTransaction returns.
TimeoutCommit(r) ==
    LET ctx == ContextErr(r.deadline, now) IN
    /\ r.pc = "commit"
    /\ members' = WithTransaction(members, r.member, ctx)
    /\ txs' = SetToBag({[r EXCEPT !.pc = "respond", !.err = ctx,
                                  !.committed = (ctx = NilErr)]})
    /\ UNCHANGED <<inited, phase, domainErrorResponses, nextID, now, held, last>>

\* AuthHandler.Signup writes its response for what the service returned.
TimeoutRespond(r) ==
    /\ r.pc = "respond"
    /\ txs' = SetToBag({[r EXCEPT
                  !.pc = "after",
                  !.writes = RespondService(domainErrorResponses, r.err, 201,
                                            EmptyObject)]})
    /\ UNCHANGED <<inited, phase, domainErrorResponses, members, nextID, now, held, last>>

\* Timeout after c.Next(): a warning is logged when the deadline has passed,
\* nothing is written, and the deferred cancel releases the context.
TimeoutReturn(r) ==
    /\ r.pc = "after"
    /\ last = NoRequest
    /\ txs' = EmptyBag
    /\ last' = Answer("timeout", r.body, << "Timeout", "Signup" >>, TRUE, r.err, r.writes)
               @@ [deadline |-> r.deadline, returned |-> now,
                   inserted |-> r.inserted, committed |-> r.committed,
                   warned |-> (ContextErr(r.deadline, now) = DeadlineExceeded),
                   cancelled |-> TRUE]
    /\ UNCHANGED <<inited, phase, domainErrorResponses, members, nextID, now, held>>

NextTimeout ==
    \/ \E p \in Packages : InitPackage(p)
    \/ StartServer
    \/ TickClock
    \/ \E body \in TimeoutBodies : Timeout(body)
    \/ \E r \in BagToSet(txs) : TimeoutIsExist(r)
    \/ \E r \in BagToSet(txs) : TimeoutCreate(r)
    \/ \E r \in BagToSet(txs) : TimeoutCommit(r)
    \/ \E r \in BagToSet(txs) : TimeoutRespond(r)
    \/ \E r \in BagToSet(txs) : TimeoutReturn(r)
    \/ Deliver

SpecTimeout == Init /\ [][NextTimeout]_vars

-----------------------------------------------------------------------------
(* The process: main and run, from the -env flag to the return of run.  The *)
(* state of run is held in last, the requests the server is handling in     *)
(* txs, the member table the process finds in members; the clock counts     *)
(* seconds from the signal.                                                 *)

GracefulTimeout == 30

Envs == {"local", "dev", "development", "prod", "production", "staging"}

\* logger.Setup: the slog handler and level.
Setup(env) ==
    IF env \in {"production", "prod"} THEN [handler |-> "json", level |-> "INFO"]
    ELSE IF DebugEnabled(env) THEN [handler |-> "text", level |-> "DEBUG"]
    ELSE [handler |-> "text", level |-> "INFO"]

\* database.newLogger
newLogger(env) ==
    [LogLevel |-> IF IsProduction(env) THEN "Error" ELSE "Info",
     HideSqlInLog |-> IsProduction(env)]

\* Bootstrap.SetupEngine: the gin mode.
SetupEngine(env) == IF IsProduction(env) THEN "release" ELSE "debug"

ErrServerClosed == PlainError("http: Server closed")

\* A slip: Shutdown returning at once, requests still being handled.
ServerShutdownImpatient(inflight, t, deadline) == [done |-> TRUE, err |-> NilErr]

\* http.Server.Shutdown(ctx) after the listeners are closed: nil once no
\* request is being handled, ctx.Err() once the context is done; it waits
\* otherwise.
ServerShutdown(inflight, t, deadline) ==
    IF inflight = EmptyBag THEN [done |-> TRUE, err |-> NilErr]
    ELSE IF ContextErr(deadline, t) # NilErr
         THEN [done |-> TRUE, err |-> ContextErr(deadline, t)]
    ELSE [done |-> FALSE, err |-> NilErr]

\* The process may find a member table with rows of an earlier run.
InitRun ==
    /\ inited = {}
    /\ phase = "init"
    /\ domainErrorResponses = [k \in {} |-> ZeroErrorResponse]
    /\ members \in { {}, { [NewMember("A", "a@x.com", "010-1234-5678",
                                       GenerateFromPassword("password1"))
                               EXCEPT !.id = 1] } }
    /\ nextID = 1
    /\ txs = EmptyBag
    /\ now = 0
    /\ held = NoTokens
    /\ last = NoRequest

\* main and run up to startWithGracefulShutdown: logger.Setup, config.Load,
\* database.New (newLogger, Migrate), setupServer (SetupEngine), srv.Start.
\* When Migrate fails run returns before its defer of db.Close is reached.
run(env, isAutoMigrate) ==
    LET m == Migrate(members, env, isAutoMigrate) IN
    /\ phase = "serving"
    /\ last = NoRequest
    /\ members' = m.rows
    /\ last' = [route |-> "run", env |-> env, isAutoMigrate |-> isAutoMigrate,
                slog |-> Setup(env), gorm |-> newLogger(env),
                dropped |-> m.dropped,
                gin |-> IF m.err = NilErr THEN SetupEngine(env) ELSE "unset",
                pc |-> IF m.err = NilErr THEN "listening" ELSE "exited",
                err |-> IF m.err = NilErr THEN NilErr
                        ELSE Wrapf("database connection failed:",
                                   Wrapf("migration failed:", m.err)),
                signalled |-> FALSE, deadline |-> 0, startErr |-> NilErr,
                shutdownReturned |-> FALSE, forced |-> FALSE, dbClosed |-> FALSE]
    /\ UNCHANGED <<inited, phase, domainErrorResponses, nextID, txs, now, held>>

\* The server accepts a request; a handler finishes.
RequestArrives ==
    /\ last # NoRequest /\ last.pc = "listening"
    /\ BagCardinality(txs) < MaxInFlight
    /\ txs' = txs (+) SetToBag({[pc |-> "handling"]})
    /\ UNCHANGED <<inited, phase, domainErrorResponses, members, nextID, now, held, last>>

RequestDone ==
    /\ last # NoRequest /\ last.pc \in {"listening", "shutdown"}
    /\ txs # EmptyBag
    /\ txs' = txs (-) SetToBag({[pc |-> "handling"]})
    /\ UNCHANGED <<inited, phase, domainErrorResponses, members, nextID, now, held, last>>

\* SIGINT or SIGTERM arrives on quit: srv.Shutdown is called with a context
\* of GracefulTimeout, and the listeners are closed.
Signal ==
    /\ last # NoRequest /\ last.pc = "listening"
    /\ last' = [last EXCEPT !.pc = "shutdown", !.signalled = TRUE,
                            !.deadline = now + GracefulTimeout]
    /\ UNCHANGED <<inited, phase, domainErrorResponses, members, nextID, txs, now, held>>

\* srv.Start returns on serverErrors before any signal.
StartReturns(e) ==
    /\ last # NoRequest /\ last.pc = "listening"
    /\ last' = [last EXCEPT !.pc = "returning", !.startErr = e,
                            !.err = IF e # NilErr /\ e # ErrServerClosed
                                    THEN Wrapf("server error:", e) ELSE NilErr]
    /\ UNCHANGED <<inited, phase, domainErrorResponses, members, nextID, txs, now, held>>

TickRun ==
    /\ last # NoRequest /\ last.pc = "shutdown"
    /\ now < MaxClock
    /\ now' = now + 1
    /\ UNCHANGED <<inited, phase, domainErrorResponses, members, nextID, txs, held, last>>

\* srv.Shutdown returns and startWithGracefulShutdown with it.
Shutdown ==
    LET r == ServerShutdown(txs, now, last.deadline) IN
    /\ last # NoRequest /\ last.pc = "shutdown"
    /\ r.done
    /\ last' = [last EXCEPT !.pc = "returning", !.shutdownReturned = TRUE,
                            !.forced = (r.err # NilErr),
                            !.err = IF r.err # NilErr
                                    THEN Wrapf("server forced shutdown:", r.err)
                                    ELSE NilErr]
    /\ UNCHANGED <<inited, phase, domainErrorResponses, members, nextID, txs, now, held>>

\* run returns: its deferred db.Close runs.
RunReturns ==
    /\ last # NoRequest /\ last.pc = "returning"
    /\ last' = [last EXCEPT !.pc = "exited", !.dbClosed = TRUE]
    /\ UNCHANGED <<inited, phase, domainErrorResponses, members, nextID, txs, now, held>>

NextRun ==
    \/ \E p \in Packages : InitPackage(p)
    \/ StartServer
    \/ \E env \in Envs, isAutoMigrate \in BOOLEAN : run(env, isAutoMigrate)
    \/ RequestArrives
    \/ RequestDone
    \/ Signal
    \/ \E e \in {ErrServerClosed, PlainError("listen tcp: address already in use")} :
          StartReturns(e)
    \/ TickRun
    \/ Shutdown
    \/ RunReturns

SpecRun == InitRun /\ [][NextRun]_vars

-----------------------------------------------------------------------------
(* The handlers' error tail on its own: every handler hands the error its   *)
(* service returned to ResolveDomainError.  The errors are drawn from the   *)
(* sentinels of the program, a domain error no init() registered, errors of *)
(* the libraries, and fmt.Errorf wrappings of these.                        *)

ErrUnregistered == NewDomainError("NOT_REGISTERED")

BaseErrors ==
    { ErrMissingToken, ErrInvalidToken, ErrExpiredToken, ErrInvalidClaims,
      ErrMemberAlreadyExists, ErrMemberNotFound, ErrInCorrectEmailPassword,
      ErrUnregistered, StorageFailure, ErrRecordNotFound, TokenErrInvalidToken }

WrapMessages == {"error", "create member:", "login failed:"}

RECURSIVE Wrapped(_)
Wrapped(depth) ==
    IF depth = 0 THEN BaseErrors
    ELSE LET inner == Wrapped(depth - 1) IN
         inner \cup { Wrapf(msg, err) : msg \in WrapMessages, err \in inner }

ServiceErrors == {NilErr} \cup Wrapped(MaxWrap)

\* The handlers with the status each writes on success.
Handlers == {"Signup", "Login", "GetProfile"}
OkStatus(handler) == IF handler = "Signup" THEN 201 ELSE 200

\* A handler whose service returned err answers.
Respond(handler, err) ==
    /\ phase = "serving"
    /\ last = NoRequest
    /\ last' = [route |-> "respond", handler |-> handler, err |-> err,
                resolved |-> ResolveDomainError(domainErrorResponses, err),
                writes |-> RespondService(domainErrorResponses, err,
                                          OkStatus(handler), EmptyObject)]
    /\ UNCHANGED <<inited, phase, domainErrorResponses, members, nextID, txs, now, held>>

NextResolve ==
    \/ \E p \in Packages : InitPackage(p)
    \/ StartServer
    \/ \E handler \in Handlers, err \in ServiceErrors : Respond(handler, err)
    \/ Deliver

SpecResolve == Init /\ [][NextResolve]_vars

-----------------------------------------------------------------------------
(* Properties.  They are stated on the answer a request received (`last`),  *)
(* at which point the other variables are as the request left them.         *)

Emails == {"a@x.com", "b@x.com"}

RowsWith(email) == {m \in members : m.email = email}

\* The error does not come from a failing storage call, a failing bcrypt or
\* a failing token manager.
NoFault(err) ==
    /\ ~ErrorsIs(err, StorageFailure)
    /\ ~ErrorsIs(err, HashFailure)
    /\ ~ErrorsIs(err, SigningFailure)

\* The one response of an answer.
Response == last.writes[1]

MemberAlreadyExistsBody == ErrorResponse(409, "MEMBER-002", "already signed up")

\* C1: with signups of one email that do not overlap, the first valid one is
\* answered 201 and every later one 409 with code MEMBER-002, and exactly one
\* row with the email exists afterwards.  (A request is "later" when the row
\* was committed before it arrived; answers to a failing storage call are the
\* 500 of another claim.)
SignupTwiceConflicts ==
    (last.route = "signup" /\ last.svc /\ NoFault(last.err)) =>
        /\ Len(last.writes) = 1
        /\ last.prior =>
              /\ Response.status = 409
              /\ Response.body = MemberAlreadyExistsBody
              /\ Cardinality(RowsWith(last.req.email)) = 1
        /\ (~last.prior /\ ~last.overlapped) =>
              /\ Response.status = 201
              /\ Cardinality(RowsWith(last.req.email)) = 1

\* The second of two signups with one email, the first having been committed.
SignupTwiceWitness ==
    /\ last.route = "signup"
    /\ last.prior /\ ~last.overlapped
    /\ Response.status = 409
    /\ \E m \in members : m.email = last.req.email /\ m.name # last.req.name

\* C2: however Signup calls for one email interleave, the table never holds
\* (committed or inserted and awaiting commit) more than one row with that
\* email: an insert made while a row with the email exists is rejected.
OneRowPerEmail ==
    \A email \in Emails :
        Cardinality(RowsWith(email))
        + BagCardinality([tx \in {x \in BagToSet(txs) :
                                     x.pc = "commit" /\ x.body.email = email}
                          |-> txs[tx]]) <= 1

\* Two signups both passed IsExist; the insert of the second met the index.
OneRowPerEmailWitness ==
    /\ last.route = "signup"
    /\ ~last.prior /\ last.overlapped
    /\ ErrorsIs(last.err, UniqueViolation)
    /\ Response.status = 500
    /\ Cardinality(RowsWith(last.req.email)) = 1

IncorrectEmailPasswordBody ==
    ErrorResponse(400, "AUTH-003", "email or password does not match")

LoginUnknownEmail == RowsWith(last.req.email) = {}

LoginWrongPassword ==
    \E m \in RowsWith(last.req.email) :
        ~CompareHashAndPassword(m.password, last.req.password)

\* C3: a Login with an email of no member and a Login with a member's email
\* and a wrong password are answered with the same response: status 400 and
\* the body {400, AUTH-003, message}.
LoginFailuresAlike ==
    (last.route = "login" /\ last.svc /\ NoFault(last.err)
       /\ (LoginUnknownEmail \/ LoginWrongPassword)) =>
        last.writes = << Write(400, IncorrectEmailPasswordBody) >>

LoginFailuresAlikeWitness ==
    /\ last.route = "login" /\ last.svc
    /\ LoginWrongPassword
    /\ Response.status = 400
    /\ \E email \in Emails : RowsWith(email) = {}

\* The token a profile request presented, when its header has the Bearer form.
Presented == last.req.token

BearerForm == last.req.n = 2 /\ EqualFold(last.req.scheme, BearerScheme)

\* The presented string is a token signed with the manager's secret.
SignedWithSecret ==
    /\ Presented.form = "jwt"
    /\ Presented.alg = "HS256"
    /\ Presented.sig = HMAC(Secret, "HS256", Presented.payload)

\* C4: ValidateToken on a token signed with the manager's secret whose
\* expires-at is earlier than the current time returns the expired-token error.
ExpiredTokenRejected ==
    (last.route = "profile" /\ BearerForm /\ SignedWithSecret
       /\ Presented.payload.exp < now) =>
        last.tokenErr = TokenErrExpiredToken

\* C5: the handler behind the JWT middleware runs only if the presented
\* token's signature verifies, its type is access, and the current time is
\* before its expires-at.
OnlyValidAccessTokenPasses ==
    (last.route = "profile" /\ last.ran = << "JWT", "GetProfile" >>) =>
        /\ BearerForm
        /\ SignedWithSecret
        /\ Presented.payload.token_type = ACCESS
        /\ now < Presented.payload.exp

\* The member a successful Login was for.
LoggedIn == CHOOSE m \in members : m.email = last.req.email

\* Signatures other than the token's own.
OtherSignatures(tok, other) ==
    { HMAC(key, alg, payload) :
        key \in {Secret, "attacker-key", ""}, alg \in {"HS256", "HS512", "none"},
        payload \in {tok.payload, other.payload} }
    \ {tok.sig}

\* C6: the access token Login generated for (id, email), validated before
\* its expiry, yields claims with that id, that email and type access; the
\* same token with any other signature is rejected, by ValidateToken and so
\* by the middleware.
AccessTokenRoundTrip ==
    /\ (last.route = "login" /\ last.svc /\ last.err = NilErr) =>
          LET tok == Response.body.accessToken IN
          \A t \in 0..MaxTime :
              /\ t < tok.payload.exp =>
                    LET v == ValidateToken(tok, t) IN
                    /\ v.err = NilErr
                    /\ v.claims.MemberID = FormatUint(LoggedIn.id)
                    /\ v.claims.Email = last.req.email
                    /\ v.claims.TokenType = ACCESS
              /\ \A sig \in OtherSignatures(tok, Response.body.refreshToken) :
                    ValidateToken([tok EXCEPT !.sig = sig], t).err = TokenErrInvalidToken
    /\ (last.route = "profile" /\ BearerForm /\ Presented.form = "jwt"
          /\ Presented.sig # HMAC(Secret, Presented.alg, Presented.payload)) =>
          last.tokenErr = TokenErrInvalidToken

\* A client presented its access token before expiry and the claims of the
\* member came back.
AccessTokenRoundTripWitness ==
    /\ last.route = "profile" /\ BearerForm
    /\ held.has /\ Presented = held.accessToken
    /\ now < Presented.payload.exp
    /\ last.tokenErr = NilErr
    /\ \E m \in members : /\ last.keys.member_id = FormatUint(m.id)
                          /\ last.keys.member_email = m.email

\* C7: when the middleware fails to extract or validate a token it writes one
\* 401 response and aborts; GetProfile and the service behind it do not run;
\* member id and email are in the context only after a successful validation.
MiddlewareFailureStopsChain ==
    last.route = "profile" =>
        /\ (last.extractErr # NilErr \/ last.tokenErr # NilErr) =>
              /\ Len(last.writes) = 1
              /\ Response.status = 401
              /\ last.aborted
              /\ last.ran = << "JWT" >>
              /\ ~last.svc
              /\ last.keys = NoKeys
        /\ last.keys # NoKeys =>
              /\ last.extractErr = NilErr /\ last.tokenErr = NilErr
              /\ ValidateToken(Presented, now).err = NilErr

\* A token with a forged signature was presented and the chain stopped.
MiddlewareFailureWitness ==
    /\ last.route = "profile" /\ BearerForm
    /\ Presented.form = "jwt"
    /\ last.tokenErr # NilErr
    /\ Response.status = 401
    /\ last.ran = << "JWT" >>

\* C8: the middleware's domain error: MissingToken for an absent header,
\* InvalidToken for a header not of the form "Bearer <token>", and for a
\* failing ValidateToken ExpiredToken when the token is expired, InvalidClaims
\* when its claims cannot be decoded, InvalidToken for every other failure.
MiddlewareErrorMapping ==
    last.route = "profile" =>
        IF last.req.n = 0 THEN last.jwtErr = ErrMissingToken
        ELSE IF ~BearerForm THEN last.jwtErr = ErrInvalidToken
        ELSE IF Presented.form = "badclaims" THEN last.jwtErr = ErrInvalidClaims
        ELSE IF SignedWithSecret /\ ~(now < Presented.payload.exp)
             THEN last.jwtErr = ErrExpiredToken
        ELSE IF ~SignedWithSecret THEN last.jwtErr = ErrInvalidToken
        ELSE last.jwtErr = NilErr

\* The member whose email a token names.
Holder == CHOOSE m \in members : m.email = Presented.payload.email

\* The row of the member the token was issued to is in the table.
HolderHasRow ==
    \E m \in members : /\ m.email = Presented.payload.email
                        /\ FormatUint(m.id) = Presented.payload.member_id

ProfileFields == {"id", "name", "email", "phoneNumber"}

\* C9: once a signup (name, email, phoneNumber, password) has succeeded, a
\* Login with that email and password is answered 200 with two non-empty
\* tokens, and a profile request with that access token is answered 200 with
\* the id, name, email and phoneNumber of that member and nothing else: no
\* password, no password hash.  (Storage calls that fail are answered 500.)
SignupLoginProfile ==
    /\ (last.route = "login" /\ last.svc /\ NoFault(last.err)
          /\ \E m \in members : /\ m.email = last.req.email
                                /\ m.password = GenerateFromPassword(last.req.password)) =>
          /\ last.writes = << Write(200, Response.body) >>
          /\ DOMAIN Response.body = {"accessToken", "refreshToken"}
          /\ Response.body.accessToken.form = "jwt"
          /\ Response.body.refreshToken.form = "jwt"
    /\ (last.route = "profile" /\ BearerForm /\ SignedWithSecret
          /\ Presented.payload.token_type = ACCESS
          /\ now < Presented.payload.exp /\ NoFault(last.err)
          /\ HolderHasRow) =>
          /\ last.writes = << Write(200, Response.body) >>
          /\ DOMAIN Response.body = ProfileFields
          /\ Response.body.id = Holder.id
          /\ FormatUint(Holder.id) = Presented.payload.member_id
          /\ Response.body.name = Holder.name
          /\ Response.body.email = Holder.email
          /\ Response.body.phoneNumber = Holder.phoneNumber
          /\ \A k \in {"name", "email", "phoneNumber"} :
                Response.body[k] # Holder.password

\* The profile of the second member to sign up, read with a fresh token.
SignupLoginProfileWitness ==
    /\ last.route = "profile" /\ BearerForm
    /\ held.has /\ Presented = held.accessToken
    /\ now < Presented.payload.exp
    /\ Response.status = 200
    /\ Response.body.id = 2
    /\ Response.body.phoneNumber = Holder.phoneNumber

RECURSIVE CallsMade(_)
CallsMade(ps) ==
    IF ps = {} THEN 0
    ELSE LET p == CHOOSE q \in ps : TRUE IN RegisterCalls(p) + CallsMade(ps \ {p})

\* C11: every identifier is registered exactly once (as many identifiers as
\* registration calls made, and no step replaces or removes an entry), all
\* of it before the server accepts requests: once it serves, no step changes
\* the registry, which stays what initialization left.
RegistryImmutable ==
    /\ [](Cardinality(DOMAIN domainErrorResponses) = CallsMade(inited))
    /\ [](phase = "serving" => inited = Packages)
    /\ [][/\ \A id \in DOMAIN domainErrorResponses :
                /\ id \in DOMAIN domainErrorResponses'
                /\ domainErrorResponses'[id] = domainErrorResponses[id]
          /\ phase = "serving" => domainErrorResponses' = domainErrorResponses]_vars

\* A request was answered from the registry the seven registrations left.
RegistryImmutableWitness ==
    /\ phase = "serving"
    /\ last # NoRequest
    /\ Cardinality(DOMAIN domainErrorResponses) = 7
    /\ members # {}

Envelope == {"status", "code", "message"}

\* C12: every error response (a status of 400 or above) the server sends,
\* whatever the route or the middleware that wrote it, has a JSON body of
\* the shape {status, code, message}.
ErrorsInEnvelope ==
    last # NoRequest =>
        \A i \in 1..Len(last.writes) :
            last.writes[i].status >= 400 => DOMAIN last.writes[i].body = Envelope

\* An error response of a handler, in the envelope.
ErrorsInEnvelopeWitness ==
    /\ last.route = "login"
    /\ Response.status = 400
    /\ DOMAIN Response.body = Envelope

\* A log entry shows a string: it is one of the error's texts, or a value
\* written into the logged statement.
Shows(entry, str) ==
    \/ str \in entry.error
    \/ \E i \in 1..Len(entry.sql.values) : entry.sql.values[i] = str

\* C13: no log entry written while a signup or login request is handled
\* shows the request's raw password or its full email; the email attribute
\* of an entry is the MaskEmail of the request's email.
LogsHideSecrets ==
    (last.route \in {"signup", "login"} /\ last.svc) =>
        \A i \in 1..Len(last.logs) :
            /\ ~Shows(last.logs[i], last.req.password)
            /\ ~Shows(last.logs[i], last.req.email)
            /\ last.logs[i].email # Bytes(last.req.email)
            /\ last.logs[i].email \in {<< >>, MaskEmail(Bytes(last.req.email))}

\* A login was logged with its masked email.
LogsHideSecretsWitness ==
    /\ last.route = "login" /\ last.svc
    /\ \E i \in 1..Len(last.logs) :
          last.logs[i].email = MaskEmail(Bytes(last.req.email))

\* C15: a step in which a Signup fails (email exists, hashing fails, the
\* insert or the commit fails) leaves the member rows as they were; a step in
\* which a Signup succeeds adds exactly one row, the request's, and changes
\* no other; the steps of a Signup before its answer write no visible row.
SignupFrame ==
    [][/\ (last'.route = "signup" /\ last'.writes[1].status # 201) =>
              members' = members
       /\ (last'.route = "signup" /\ last'.writes[1].status = 201) =>
              \E m \in members' \ members :
                  /\ members' = members \cup {m}
                  /\ m.email = last'.req.email /\ m.name = last'.req.name
                  /\ m.phoneNumber = last'.req.phoneNumber
       /\ (\E tx \in BagToSet(txs') : tx \notin BagToSet(txs)) =>
              members' = members]_vars

\* A Signup whose password could not be hashed: no row for its email.
SignupFrameWitness ==
    /\ last.route = "signup"
    /\ ErrorsIs(last.err, HashFailure)
    /\ Response.status = 500
    /\ members # {}
    /\ RowsWith(last.req.email) = {}

\* C16: a step in which a Login is answered, with success or with any
\* failure, leaves the member table as it was: no row created, changed or
\* deleted, no id consumed, no transaction left open.
LoginFrame ==
    [][last'.route = "login" =>
          /\ members' = members
          /\ nextID' = nextID
          /\ txs' = txs]_vars

\* A successful Login, the member's row in the table.
LoginFrameWitness ==
    /\ last.route = "login" /\ last.svc
    /\ last.err = NilErr
    /\ Response.status = 200
    /\ RowsWith(last.req.email) # {}

\* The password of the Login request verifies against the member's row.
LoginPasswordVerifies ==
    \E m \in RowsWith(last.req.email) :
        CompareHashAndPassword(m.password, last.req.password)

\* C17: when the password verifies and the access or the refresh token cannot
\* be generated, Login's error is not IncorrectEmailPassword, the response
\* is the generic 500 ERROR-003 and not 400 AUTH-003, and it carries no
\* token, the one already generated included.
TokenFailureIsInternal ==
    (last.route = "login" /\ last.svc /\ last.fault \in {"access", "refresh"}
       /\ LoginPasswordVerifies) =>
        /\ last.err # NilErr
        /\ ~ErrorsIs(last.err, ErrInCorrectEmailPassword)
        /\ last.writes = << Write(500, InternalServerError) >>
        /\ Response.body.code = "ERROR-003"
        /\ DOMAIN Response.body \cap {"accessToken", "refreshToken"} = {}

\* The access token was generated, the refresh token was not.
TokenFailureWitness ==
    /\ last.route = "login" /\ last.svc
    /\ last.fault = "refresh"
    /\ LoginPasswordVerifies
    /\ Response.status = 500

MemberNotFoundBody == ErrorResponse(404, "MEMBER-001", "member not found")

\* C18: GetProfile, reached with a member id the middleware authenticated,
\* answers 404 with code MEMBER-001 when no row has that id, never 401 and
\* never 500; a lookup that fails in any other way is answered with the
\* generic 500 ERROR-003.
ProfileNotFoundIs404 ==
    (last.route = "profile" /\ last.svc) =>
        /\ (last.fault = "ok" /\ FindByID(members, last.memberID) = {}) =>
              /\ ErrorsIs(last.err, ErrMemberNotFound)
              /\ Len(last.writes) = 1
              /\ Response.status = 404
              /\ Response.body.status = 404
              /\ Response.body.code = "MEMBER-001"
        /\ last.fault = "db" =>
              /\ last.writes = << Write(500, InternalServerError) >>
              /\ Response.body.code = "ERROR-003"

\* A client presents the token it got before the member table was dropped.
ProfileNotFoundWitness ==
    /\ last.route = "profile" /\ last.svc
    /\ held.has /\ Presented = held.accessToken
    /\ last.fault = "ok"
    /\ FindByID(members, last.memberID) = {}
    /\ Response.status = 404

\* A signup body the claim names: malformed JSON, a field missing, an email
\* of invalid format, a password of fewer than 8 characters.
SignupInvalid(b) ==
    \/ b.json # "ok"
    \/ b.name = "" \/ b.email = "" \/ b.phoneNumber = "" \/ b.password = ""
    \/ ~IsEmail(b.email)
    \/ RuneLen(b.password) < 8

\* C19: a signup whose body is malformed JSON, lacks name, email, phoneNumber
\* or password, has an email of invalid format or a password shorter than 8
\* characters is answered 400 with a body whose status, code and message are
\* not empty; AuthService.Signup is not invoked and the answering step writes
\* no row, opens no transaction and consumes no id.
InvalidSignupRejected ==
    /\ []((last.route = "signup" /\ SignupInvalid(last.req)) =>
            /\ Len(last.writes) = 1
            /\ Response.status = 400
            /\ DOMAIN Response.body = {"status", "code", "message"}
            /\ Response.body.status # 0
            /\ Response.body.code # ""
            /\ Response.body.message # ""
            /\ ~last.svc)
    /\ [][(last'.route = "signup" /\ SignupInvalid(last'.req)) =>
            /\ members' = members
            /\ txs' = txs
            /\ nextID' = nextID]_vars

\* Signups with a short password and with an email of invalid format were
\* turned away; the table has the row of the one valid signup.
InvalidSignupWitness ==
    /\ last.route = "signup"
    /\ last.req.json = "ok"
    /\ (RuneLen(last.req.password) < 8 \/ ~IsEmail(last.req.email))
    /\ Response.status = 400
    /\ ~last.svc
    /\ Cardinality(members) = 1

\* The plaintext passwords of the requests.
Plaintexts == {b.password : b \in SignupBodies} \cup {b.password : b \in LoginBodies}

\* The rows of the table and the rows inserted by transactions still open.
RowsWritten ==
    members \cup {tx.member : tx \in {x \in BagToSet(txs) : x.pc = "commit"}}

\* C20: the password column of every Member row holds the bcrypt hash Signup
\* made of a request's password and never a request's plaintext password; a
\* Login succeeds only when the presented password verifies against that
\* hash, and fails with IncorrectEmailPassword when it does not.
PasswordStoredHashed ==
    /\ \A m \in RowsWritten :
          /\ \E pw \in Plaintexts \ {""} : m.password = GenerateFromPassword(pw)
          /\ m.password \notin Plaintexts
    /\ (last.route = "login" /\ last.svc /\ NoFault(last.err)) =>
          \A m \in RowsWith(last.req.email) :
              /\ m.password # last.req.password
              /\ (last.err = NilErr) <=>
                     CompareHashAndPassword(m.password, last.req.password)
              /\ (last.err # NilErr) =>
                     ErrorsIs(last.err, ErrInCorrectEmailPassword)

\* A member logged in with the password whose hash the row holds.
PasswordStoredHashedWitness ==
    /\ last.route = "login" /\ last.svc
    /\ last.err = NilErr
    /\ \E m \in RowsWith(last.req.email) :
          /\ m.password = GenerateFromPassword(last.req.password)
          /\ m.password # last.req.password

\* The Signup answered failed at memberRepository.Create.
CreateFailed(a) ==
    /\ a.route = "signup" /\ a.svc
    /\ a.err # NilErr
    /\ a.err[1].text = "create member:"

\* C21: when the insert inside Signup fails, by the unique index for a signup
\* that passed the existence check in a race or by any other storage error,
\* the returned error wraps the storage error and has no domain error in its
\* chain, the answer is the generic 500 ERROR-003 and not 409 MEMBER-002, and
\* the transaction is rolled back: it is closed and the table is as it was.
CreateFailureIsInternal ==
    /\ [](CreateFailed(last) =>
            /\ ErrorsIs(last.err, UniqueViolation) \/ ErrorsIs(last.err, StorageFailure)
            /\ FirstDomain(last.err, 1) = 0
            /\ ~ErrorsIs(last.err, ErrMemberAlreadyExists)
            /\ ~ResolveDomainError(domainErrorResponses, last.err).found
            /\ last.writes = << Write(500, InternalServerError) >>
            /\ Response.body.code = "ERROR-003"
            /\ Response.body # MemberAlreadyExistsBody)
    /\ [][CreateFailed(last') =>
            /\ members' = members
            /\ BagCardinality(txs') = BagCardinality(txs) - 1
            /\ \A tx \in BagToSet(txs') : tx.pc = "create" \/ CopiesIn(tx, txs) > 0]_vars

\* The loser of a race: it passed IsExist, the winner committed, and its own
\* insert met the unique index.
CreateFailureWitness ==
    /\ CreateFailed(last)
    /\ last.overlapped
    /\ ErrorsIs(last.err, UniqueViolation)
    /\ Response.status = 500
    /\ \E m \in RowsWith(last.req.email) : m.name # last.req.name

\* The request in flight makes a database call with its deadline passed.
CallAfterDeadline ==
    \E r \in BagToSet(txs) :
        r.pc \in {"isExist", "create", "commit"} /\ now >= r.deadline

\* C22: a database call made for a request after the deadline of its Timeout
\* context has passed fails with the context's error and executes nothing,
\* so a Signup whose deadline passes before its transaction commits leaves
\* no Member row; the middleware writes no response of its own and its
\* context is released when it returns.
DeadlineStopsDatabaseCalls ==
    /\ [][(CallAfterDeadline /\ txs' # txs) =>
            /\ members' = members
            /\ nextID' = nextID
            /\ \A r \in BagToSet(txs') :
                  /\ r.pc = "respond"
                  /\ ErrorsIs(r.err, DeadlineExceeded)
                  /\ ~r.committed]_vars
    /\ [][members' # members =>
            \E r \in BagToSet(txs) :
                /\ r.pc = "commit" /\ now < r.deadline
                /\ members' = members \cup {r.member}]_vars
    /\ [](last.route = "timeout" =>
            /\ last.committed =>
                  /\ ~ErrorsIs(last.err, DeadlineExceeded)
                  /\ \E m \in RowsWith(last.req.email) : m.name = last.req.name
            /\ ErrorsIs(last.err, DeadlineExceeded) =>
                  /\ ~last.committed
                  /\ last.writes = << Write(500, InternalServerError) >>
            /\ Len(last.writes) = 1
            /\ last.cancelled)

\* The row was inserted in time, the deadline passed before the commit.
DeadlineWitness ==
    /\ last.route = "timeout"
    /\ last.inserted /\ ~last.committed
    /\ ErrorsIs(last.err, DeadlineExceeded)
    /\ last.warned
    /\ members # {}
    /\ RowsWith(last.req.email) = {}

\* The error is a domain error under fmt.Errorf layers only.
WrappedDomain(err) ==
    /\ err # NilErr
    /\ err[Len(err)].kind = "domain"
    /\ \A i \in 1..(Len(err) - 1) : err[i].kind = "wrap"

\* C23: for a registered domain error under any number of fmt.Errorf("%w")
\* layers, ResolveDomainError answers found = true with exactly the response
\* registered for the error's identifier, and the handler writes it.
ResolveThroughWrapping ==
    (last.route = "respond" /\ WrappedDomain(last.err)
       /\ last.err[Len(last.err)].text \in DOMAIN domainErrorResponses) =>
        LET d == last.err[Len(last.err)].text IN
        /\ last.resolved.found
        /\ last.resolved.resp = domainErrorResponses[d]
        /\ last.writes = << Write(domainErrorResponses[d].status,
                                  domainErrorResponses[d]) >>

\* MemberAlreadyExists under MaxWrap layers was resolved to its 409.
ResolveThroughWrappingWitness ==
    /\ last.route = "respond"
    /\ Len(last.err) = MaxWrap + 1
    /\ WrappedDomain(last.err)
    /\ last.err[Len(last.err)] = ErrMemberAlreadyExists[1]
    /\ last.resolved.found
    /\ Response.status = 409

\* C24: the access and the refresh token a Login issues for one member have
\* the same claim shape: both carry subject = the member id, the email, the
\* issuer and issued-at = now, and they differ only in the token type and in
\* expires-at (now + the access expiry, now + the refresh expiry).
TokensSameShape ==
    (last.route = "login" /\ last.svc /\ last.err = NilErr) =>
        LET a  == Response.body.accessToken.payload
            r  == Response.body.refreshToken.payload
            id == FormatUint(LoggedIn.id)
        IN
        /\ DOMAIN a = DOMAIN r
        /\ \A k \in DOMAIN a \ {"token_type", "exp"} : a[k] = r[k]
        /\ Field(a, "sub", EmptyString) = id /\ Field(r, "sub", EmptyString) = id
        /\ a.member_id = id /\ a.email = last.req.email
        /\ a.iss = Issuer /\ a.iat = now
        /\ a.token_type = ACCESS /\ r.token_type = REFRESH
        /\ a.exp = now + AccessExpiry /\ r.exp = now + RefreshExpiry

\* A Login issued its two tokens.
TokensSameShapeWitness ==
    /\ last.route = "login" /\ last.svc /\ last.err = NilErr
    /\ Response.body.accessToken.payload.token_type = ACCESS
    /\ Response.body.refreshToken.payload.token_type = REFRESH
    /\ "sub" \in DOMAIN Response.body.refreshToken.payload

\* The signing methods a token's header may declare besides HS256.
OtherMethods == {"none", "HS384", "HS512", "RS256", "ES256"}

\* C25: ValidateToken accepts only tokens whose header declares HS256: a
\* token declaring another method, none and asymmetric ones with the secret
\* as key material included, is rejected with the invalid-token error
\* whatever its claims and however it is signed, and the middleware stops
\* the request with 401.
OnlyHS256Accepted ==
    /\ (last.route = "profile" /\ BearerForm /\ Presented.form = "jwt"
          /\ Presented.alg # "HS256") =>
          /\ last.tokenErr = TokenErrInvalidToken
          /\ Response.status = 401
          /\ last.ran = << "JWT" >>
    /\ held.has =>
          \A tok \in {held.accessToken, held.refreshToken}, alg \in OtherMethods,
             key \in {Secret, "attacker-key", ""}, t \in 0..MaxTime :
              ValidateToken([tok EXCEPT !.alg = alg,
                                        !.sig = HMAC(key, alg, tok.payload)], t).err
                  = TokenErrInvalidToken

\* The claims of a member's access token under an RS256 header, signed with
\* the secret as key material, were turned away.
OnlyHS256Witness ==
    /\ last.route = "profile" /\ BearerForm
    /\ held.has
    /\ Presented = [held.accessToken EXCEPT
                       !.alg = "RS256",
                       !.sig = HMAC(Secret, "RS256", held.accessToken.payload)]
    /\ last.tokenErr = TokenErrInvalidToken
    /\ Response.status = 401

Production == {"prod", "production"}

\* C26: Migrate drops and recreates no table when the environment is prod or
\* production (it returns an error before any DROP) and changes nothing when
\* DB_AUTO_MIGRATE is false; the member table is dropped and recreated only
\* with auto-migrate true outside production.
MigrateGuarded ==
    /\ [](last.route = "run" =>
            /\ last.dropped <=> (last.isAutoMigrate /\ last.env \notin Production)
            /\ (last.isAutoMigrate /\ last.env \in Production) =>
                  /\ last.err # NilErr
                  /\ last.pc = "exited"
            /\ (~last.isAutoMigrate \/ last.env \notin Production) =>
                  "migration failed:" \notin ErrorTexts(last.err))
    /\ [][last'.route = "run" =>
            /\ (~last'.isAutoMigrate \/ last'.env \in Production) =>
                  members' = members
            /\ members' # members =>
                  /\ last'.dropped
                  /\ members' = {}]_vars

\* A production process started with DB_AUTO_MIGRATE=true on a table with a
\* row: it stopped with the guard's error and the row is still there.
MigrateGuardedWitness ==
    /\ last.route = "run"
    /\ last.env = "production" /\ last.isAutoMigrate
    /\ last.err # NilErr
    /\ ~last.dropped
    /\ members # {}

\* C27: on SIGINT or SIGTERM the server is shut down gracefully: no request
\* is accepted any more, Shutdown returns nil only when no request is being
\* handled and with an error only once GracefulTimeout has passed, and then
\* run returns that error; the database is closed only after Shutdown has
\* returned; run returns nil when the server stops with ErrServerClosed.
GracefulShutdown ==
    /\ [](last.route = "run" =>
            /\ last.dbClosed =>
                  /\ last.pc = "exited"
                  /\ last.signalled => last.shutdownReturned
            /\ last.forced =>
                  /\ last.err # NilErr
                  /\ ErrorsIs(last.err, DeadlineExceeded)
                  /\ now >= last.deadline
            /\ (last.shutdownReturned /\ ~last.forced) => last.err = NilErr
            /\ last.startErr = ErrServerClosed => last.err = NilErr
            /\ (last.startErr # NilErr /\ last.startErr # ErrServerClosed) =>
                  last.err # NilErr)
    /\ [][(last.route = "run" /\ last.pc = "shutdown") =>
            /\ BagCardinality(txs') <= BagCardinality(txs)
            /\ last'.pc # "shutdown" =>
                  /\ last'.pc = "returning"
                  /\ ~last'.dbClosed
                  /\ txs = EmptyBag \/ now >= last.deadline
                  /\ last'.forced <=> txs # EmptyBag]_vars

\* A request was still being handled GracefulTimeout after the signal: run
\* returned the error and the database was closed after that.
GracefulShutdownWitness ==
    /\ last.route = "run"
    /\ last.signalled /\ last.forced
    /\ last.pc = "exited" /\ last.dbClosed
    /\ txs # EmptyBag
    /\ now = last.deadline

\* C30: prod and production are the same production environment to every
\* component that branches on the name: for either, Config.IsProduction is
\* true, Gin runs in release mode, the GORM logger has the error level and
\* hides SQL, slog has the JSON handler, and the migration guard blocks
\* auto-migrate.
ProductionNamesAlike ==
    (last.route = "run" /\ last.env \in Production) =>
        /\ IsProduction(last.env)
        /\ last.slog.handler = "json"
        /\ last.gorm.LogLevel = "Error"
        /\ last.gorm.HideSqlInLog
        /\ last.isAutoMigrate => (last.err # NilErr /\ ~last.dropped)
        /\ last.pc # "exited" => last.gin = "release"

\* A process started with -env production is serving.
ProductionNamesWitness ==
    /\ last.route = "run"
    /\ last.env = "production"
    /\ last.pc = "listening"
    /\ last.slog.handler = "json"

\* Member ids of one to seven digits, and strings in the member_id key that
\* are no decimal integer of 32 bits: "", "-1", "1a", "4294967296" and a
\* string of eleven digits (the character '-' is 10, 'a' is 11).
SampleIDs == {0, 1, 9, 10, 99, 100, 4095, 65535, 1000000}

BadMemberIDs ==
    { EmptyString, << 10, 1 >>, << 1, 11 >>,
      << 4, 2, 9, 4, 9, 6, 7, 2, 9, 6 >>,
      << 1, 0, 0, 0, 0, 0, 0, 0, 0, 0, 0 >> }

\* C28: the member id MemberService.GetProfile is called with is the numeric
\* value of the member_id claim of the token validated for that request,
\* which Login wrote as the decimal string of the member's id (FormatUint
\* then ParseUint gives the id back); with the key absent or no decimal
\* integer in 0..2^32-1 the handler answers 401 AUTH-000, aborts and does
\* not call the service.
MemberIDRoundTrip ==
    /\ (last.route = "profile" /\ last.svc) =>
          /\ ValidateToken(Presented, now).err = NilErr
          /\ last.keys.member_id = Presented.payload.member_id
          /\ FormatUint(last.memberID) = Presented.payload.member_id
          /\ ParseUint(Presented.payload.member_id) = [value |-> last.memberID, ok |-> TRUE]
    /\ (last.route = "login" /\ last.svc /\ last.err = NilErr) =>
          /\ Response.body.accessToken.payload.member_id = FormatUint(LoggedIn.id)
          /\ ParseUint(Response.body.accessToken.payload.member_id).value = LoggedIn.id
    /\ \A id \in SampleIDs \cup 0..MaxID :
          ParseUint(FormatUint(id)) = [value |-> id, ok |-> TRUE]
    /\ \A keys \in {NoKeys} \cup { [member_id |-> str, member_email |-> "a@x.com"] :
                                     str \in BadMemberIDs } :
          LET h == GetProfileHandler(domainErrorResponses, keys, members, "ok") IN
          /\ h.writes = << Write(401, LoginPlease) >>
          /\ LoginPlease.code = "AUTH-000"
          /\ h.aborted
          /\ ~h.svc

\* The second member's token: GetProfile was called with 2.
MemberIDRoundTripWitness ==
    /\ last.route = "profile" /\ last.svc
    /\ held.has /\ Presented = held.accessToken
    /\ Presented.payload.member_id = << 2 >>
    /\ last.memberID = 2
    /\ Response.status = 200

\* C29: on every path through the JWT middleware and the Signup, Login and
\* GetProfile handlers exactly one JSON response is written: after an error
\* response the handler returns or the chain is aborted, nothing is written
\* later, and no path ends without a response.
OneResponsePerRequest ==
    last.route \in {"signup", "login", "profile"} =>
        /\ Len(last.writes) = 1
        /\ Response.status \in {200, 201, 400, 401, 404, 409, 500}
        /\ last.route = "profile" =>
              /\ last.aborted <=> Response.status = 401
              /\ last.aborted => (~last.svc /\ Response.body.code \in {"AUTH-000", "AUTH-999"})
              /\ last.ran = << "JWT" >> => last.aborted
        /\ (last.route # "profile" /\ ~last.svc) => Response.status = 400

\* GetProfile ran behind the middleware and wrote the one response, a 500.
OneResponseWitness ==
    /\ last.route = "profile"
    /\ last.ran = << "JWT", "GetProfile" >>
    /\ last.svc /\ last.fault = "db"
    /\ Len(last.writes) = 1
    /\ Response.status = 500

-----------------------------------------------------------------------------
(* MaskEmail on its own, applied to the strings of at most MaxChars         *)
(* characters over a small alphabet, one character of it two bytes long,    *)
(* and to the example of its comment.                                       *)

MaskChars == { << "a" >>, << "b" >>, << "@" >>, << "." >>, << "C3", "A9" >> }

RECURSIVE StringsOf(_)
StringsOf(n) ==
    IF n = 0 THEN { << >> }
    ELSE LET shorter == StringsOf(n - 1) IN
         shorter \cup { str \o ch : str \in shorter, ch \in MaskChars }

JohnDoe ==
    << "j", "o", "h", "n", ".", "d", "o", "e", "@", "g", "m", "a", "i", "l", ".", "c", "o", "m" >>

MaskInputs == StringsOf(MaxChars) \cup { JohnDoe }

\* MaskEmail is called on a string.
Mask(email) ==
    /\ last = NoRequest
    /\ last' = [route |-> "mask", email |-> email, masked |-> MaskEmail(email)]
    /\ UNCHANGED <<inited, phase, domainErrorResponses, members, nextID, txs, now, held>>

NextMask ==
    \/ \E email \in MaskInputs : Mask(email)
    \/ Deliver

SpecMask == Init /\ [][NextMask]_vars

\* The positions of '@' in a string, and its first character (UTF-8: the
\* lead byte C3 opens a character of two bytes).
AtPositions(str) == { i \in 1..Len(str) : str[i] = "@" }

FirstCharacter(str) ==
    IF str = << >> THEN << >>
    ELSE IF str[1] = "C3" THEN SubSeq(str, 1, 2)
    ELSE SubSeq(str, 1, 1)

\* C14: MaskEmail gives "" for "", "***@***" for a string without exactly
\* one '@', and otherwise the first character of the local part, "***@" and
\* the domain unchanged: nothing of the local part after its first character.
MaskEmailAsSpecified ==
    last.route = "mask" =>
        IF last.email = << >> THEN last.masked = << >>
        ELSE IF Cardinality(AtPositions(last.email)) # 1
             THEN last.masked = Stars \o << "@" >> \o Stars
        ELSE LET at     == CHOOSE i \in AtPositions(last.email) : TRUE
                 local  == SubSeq(last.email, 1, at - 1)
                 domain == SubSeq(last.email, at + 1, Len(last.email))
             IN last.masked = FirstCharacter(local) \o Stars \o << "@" >> \o domain

\* john.doe@gmail.com gives j***@gmail.com
MaskEmailWitness ==
    /\ last.route = "mask"
    /\ last.email = JohnDoe
    /\ last.masked = << "j", "*", "*", "*", "@", "g", "m", "a", "i", "l", ".", "c", "o", "m" >>

=============================================================================
